---- MODULE Spec2Model ----
(***************************************************************************)
(* State-machine model of the serial command/response engine of             *)
(* rusty_meter (src/src/app/serial.rs, MyApp::spawn_serial_task) together   *)
(* with the operator-side operations that feed it (connect, disconnect,     *)
(* command sends, channel drains) and a model of the transport/instrument.  *)
(*                                                                          *)
(* Received text is modelled as a sequence of one-character strings, so     *)
(* that framing (ends_with "\r\n"), trimming, splitting and number parsing  *)
(* are computed as the code computes them.  Outbound commands are whole     *)
(* strings: the code only ever compares them as a whole.                    *)
(***************************************************************************)
EXTENDS Integers, Sequences, FiniteSets, TLC

(***************************************************************************)
(* Text helpers (Rust str methods used by the read path)                    *)
(***************************************************************************)

CR == "\r"
LF == "\n"
QUOTE == "\""

\* str::ends_with
EndsWith(s, suf) ==
    /\ Len(s) >= Len(suf)
    /\ SubSeq(s, Len(s) - Len(suf) + 1, Len(s)) = suf

\* str::starts_with
StartsWith(s, pre) ==
    /\ Len(s) >= Len(pre)
    /\ SubSeq(s, 1, Len(pre)) = pre

\* char::is_whitespace, restricted to the ASCII white space the wire carries
IsWhite(c) == c \in {" ", "\t", "\n", "\r"}

\* a trim that strips nothing
TrimEndNone(s) == s

\* str::trim_end: strip every trailing white-space character
RECURSIVE TrimEnd(_)
TrimEnd(s) ==
    IF s # <<>> /\ IsWhite(s[Len(s)])
    THEN TrimEnd(SubSeq(s, 1, Len(s) - 1))
    ELSE s

\* str::trim_start_matches(c): strip every leading c
RECURSIVE TrimStartMatches(_, _)
TrimStartMatches(s, c) ==
    IF s # <<>> /\ s[1] = c THEN TrimStartMatches(Tail(s), c) ELSE s

\* str::trim_end_matches(c): strip every trailing c
RECURSIVE TrimEndMatches(_, _)
TrimEndMatches(s, c) ==
    IF s # <<>> /\ s[Len(s)] = c
    THEN TrimEndMatches(SubSeq(s, 1, Len(s) - 1), c)
    ELSE s

\* str::trim_matches(c): strip c from both ends
TrimMatches(s, c) == TrimEndMatches(TrimStartMatches(s, c), c)

\* str::split(sep).collect(): the fields between separators; an empty
\* string gives one empty field
RECURSIVE SplitAcc(_, _, _)
SplitAcc(s, sep, cur) ==
    IF s = <<>> THEN <<cur>>
    ELSE IF s[1] = sep THEN <<cur>> \o SplitAcc(Tail(s), sep, <<>>)
    ELSE SplitAcc(Tail(s), sep, Append(cur, s[1]))

Split(s, sep) == SplitAcc(s, sep, <<>>)

Digits == {"0", "1", "2", "3", "4", "5", "6", "7", "8", "9"}

DigitVal(c) ==
    CASE c = "0" -> 0 [] c = "1" -> 1 [] c = "2" -> 2 [] c = "3" -> 3
      [] c = "4" -> 4 [] c = "5" -> 5 [] c = "6" -> 6 [] c = "7" -> 7
      [] c = "8" -> 8 [] c = "9" -> 9

AllDigits(s) == \A i \in 1..Len(s) : s[i] \in Digits

\* value of a digit string, most significant digit first
RECURSIVE DigitsValue(_)
DigitsValue(s) ==
    IF s = <<>> THEN 0
    ELSE 10 * DigitsValue(SubSeq(s, 1, Len(s) - 1)) + DigitVal(s[Len(s)])

\* the longest prefix of s made of digits
RECURSIVE DigitRun(_)
DigitRun(s) ==
    IF s # <<>> /\ s[1] \in Digits THEN <<s[1]>> \o DigitRun(Tail(s)) ELSE <<>>

\* the decimal digits of u32::MAX (4294967295)
U32MaxDigits == <<"4", "2", "9", "4", "9", "6", "7", "2", "9", "5">>

\* lexicographic a <= b for digit strings of equal length
RECURSIVE DigitsLeq(_, _)
DigitsLeq(a, b) ==
    IF a = <<>> THEN TRUE
    ELSE IF DigitVal(a[1]) < DigitVal(b[1]) THEN TRUE
    ELSE IF DigitVal(a[1]) > DigitVal(b[1]) THEN FALSE
    ELSE DigitsLeq(Tail(a), Tail(b))

\* Values of ten digits do not fit the checker's integers; they are all
\* far above every number the code compares a u32 with, and are
\* represented by this one value.
U32Big == 1000000000

\* str::parse::<u32>: an optional '+', then at least one digit, nothing
\* else, value at most u32::MAX.  -1 stands for Err.
ParseU32(s) ==
    LET body == IF s # <<>> /\ s[1] = "+" THEN Tail(s) ELSE s
        sig == TrimStartMatches(body, "0")
    IN  IF body = <<>> \/ ~AllDigits(body) THEN -1
        ELSE IF Len(sig) <= 9 THEN DigitsValue(sig)
        ELSE IF Len(sig) = 10 /\ DigitsLeq(sig, U32MaxDigits) THEN U32Big
        ELSE -1

\* ASCII lower case of the letters that occur in inf / infinity / nan / e
Lower(c) ==
    CASE c = "E" -> "e" [] c = "I" -> "i" [] c = "N" -> "n" [] c = "F" -> "f"
      [] c = "T" -> "t" [] c = "Y" -> "y" [] c = "A" -> "a" [] OTHER -> c

LowerAll(s) == [i \in 1..Len(s) |-> Lower(s[i])]

\* An f64 is modelled by its exact decimal value m * 10^e, normalised so
\* that m carries no trailing zero; kind tells numbers from NaN, the
\* infinities and a parse error.
F64Err == [kind |-> "err", m |-> 0, e |-> 0]
F64NaN == [kind |-> "nan", m |-> 0, e |-> 0]
F64Inf(neg) == [kind |-> "inf", m |-> IF neg THEN -1 ELSE 1, e |-> 0]

RECURSIVE Normalise(_, _)
Normalise(m, e) ==
    IF m = 0 THEN [kind |-> "num", m |-> 0, e |-> 0]
    ELSE IF m % 10 = 0 THEN Normalise(m \div 10, e + 1)
    ELSE [kind |-> "num", m |-> m, e |-> e]

\* the exponent part: 'e' or 'E', an optional sign, at least one digit.
\* Returns <<ok, value>>.
ParseExp(s) ==
    IF s = <<>> THEN <<TRUE, 0>>
    ELSE IF Lower(s[1]) # "e" THEN <<FALSE, 0>>
    ELSE LET r == Tail(s)
             neg == r # <<>> /\ r[1] = "-"
             d == IF r # <<>> /\ r[1] \in {"+", "-"} THEN Tail(r) ELSE r
         IN  IF d # <<>> /\ AllDigits(d)
             THEN <<TRUE, IF neg THEN 0 - DigitsValue(d) ELSE DigitsValue(d)>>
             ELSE <<FALSE, 0>>

\* a parser that never fails
ParseF64Zero(s) == [kind |-> "num", m |-> 0, e |-> 0]

\* str::parse::<f64>: Sign? ( inf | infinity | nan | Number ), Number being
\* Digit+ | Digit+ '.' Digit* | Digit* '.' Digit+, then an optional exponent
ParseF64(s) ==
    LET neg == s # <<>> /\ s[1] = "-"
        body == IF s # <<>> /\ s[1] \in {"+", "-"} THEN Tail(s) ELSE s
        low == LowerAll(body)
        ip == DigitRun(body)
        r1 == SubSeq(body, Len(ip) + 1, Len(body))
        dot == r1 # <<>> /\ r1[1] = "."
        fp == IF dot THEN DigitRun(Tail(r1)) ELSE <<>>
        r2 == IF dot THEN SubSeq(r1, Len(fp) + 2, Len(r1)) ELSE r1
        ex == ParseExp(r2)
        mant == DigitsValue(ip \o fp)
    IN  IF low \in {<<"i", "n", "f">>, <<"i", "n", "f", "i", "n", "i", "t", "y">>}
        THEN F64Inf(neg)
        ELSE IF low = <<"n", "a", "n">> THEN F64NaN
        ELSE IF Len(ip) + Len(fp) >= 1 /\ ex[1]
        THEN Normalise(IF neg THEN 0 - mant ELSE mant, ex[2] - Len(fp))
        ELSE F64Err

(***************************************************************************)
(* Wire vocabulary                                                          *)
(***************************************************************************)

\* outbound command texts (serial.rs:65-88, 138-143, 308-314)
CmdIdn == "*IDN?\n"
CmdMeas == "MEAS?\n"
CmdFunc == "FUNC?\n"
CmdRem == "SYST:REM\n"
CmdLoc == "SYST:LOC\n"
CmdRst == "*RST\n"

\* "SYST:BEEP:STATe ON\n" / "... OFF\n"
BeepCmd(on) == IF on THEN "SYST:BEEP:STATe ON\n" ELSE "SYST:BEEP:STATe OFF\n"

\* format!("CONT:THREshold {}\n", cont_threshold), cont_threshold: u32
ContThrCmd(n) == "CONT:THREshold " \o ToString(n) \o "\n"

\* format!("DIOD:THREshold {}\n", diod_threshold), diod_threshold: f32 with
\* one decimal, held here in tenths of a volt; Display prints 2.0 as "2"
DiodThrCmd(t) ==
    "DIOD:THREshold " \o ToString(t \div 10)
        \o (IF t % 10 = 0 THEN "" ELSE "." \o ToString(t % 10)) \o "\n"

\* RateCmd::default().get_opt(i).1
RateOpt(i) == CASE i = 0 -> "S" [] i = 1 -> "M" [] i = 2 -> "F"

\* format!("RATE {}\n", RateCmd::default().get_opt(curr_rate).1)
RateCmdText(i) == "RATE " \o RateOpt(i) \o "\n"

\* the commands whose text ends in '?' before the terminator
IsQuery(cmd) == cmd \in {CmdIdn, CmdMeas, CmdFunc}

MeterModes ==
    {"Vdc", "Vac", "Adc", "Aac", "Res", "Cap", "Freq", "Per", "Diod", "Cont",
     "Temp"}

\* function-name tokens as received text
T_VOLT == <<"V", "O", "L", "T">>
T_VOLT_AC == <<"V", "O", "L", "T", " ", "A", "C">>
T_CURR == <<"C", "U", "R", "R">>
T_CURR_AC == <<"C", "U", "R", "R", " ", "A", "C">>
T_RES == <<"R", "E", "S">>
T_CAP == <<"C", "A", "P">>
T_FREQ == <<"F", "R", "E", "Q">>
T_PER == <<"P", "E", "R">>
T_TEMP == <<"T", "E", "M", "P">>
T_DIOD == <<"D", "I", "O", "D">>
T_CONT == <<"C", "O", "N", "T">>

T_OWON == <<"O", "W", "O", "N">>
T_XDM1041 == <<"X", "D", "M", "1", "0", "4", "1">>
T_XDM1241 == <<"X", "D", "M", "1", "2", "4", "1">>

CRLF == <<CR, LF>>

(***************************************************************************)
(* Reply classification (serial.rs:192-278)                                 *)
(***************************************************************************)

\* a derivation whose minor-version bound is off by one
DeriveSwapOffByOne(trimmed, old) ==
    LET parts == Split(trimmed, ",")
    IN  IF Len(parts) >= 4 /\ parts[1] = T_OWON
           /\ (parts[2] = T_XDM1041 \/ parts[2] = T_XDM1241)
        THEN LET fw_version == TrimStartMatches(parts[4], "V")
                 version_parts == Split(fw_version, ".")
             IN  IF Len(version_parts) >= 3
                 THEN LET major == ParseU32(version_parts[1])
                          minor == ParseU32(version_parts[2])
                      IN  IF major # -1 /\ minor # -1
                          THEN major < 4 \/ (major = 4 /\ minor <= 3)
                          ELSE old
                 ELSE old
        ELSE old

\* serial.rs:206-224: the DIOD/CONT swap derived from the trimmed identity
\* line; old is the value the flag had (it is only assigned when the
\* manufacturer, the model and both version numbers are accepted)
DeriveSwap(trimmed, old) ==
    LET parts == Split(trimmed, ",")
    IN  IF Len(parts) >= 4 /\ parts[1] = T_OWON
           /\ (parts[2] = T_XDM1041 \/ parts[2] = T_XDM1241)
        THEN LET fw_version == TrimStartMatches(parts[4], "V")
                 version_parts == Split(fw_version, ".")
             IN  IF Len(version_parts) >= 3
                 THEN LET major == ParseU32(version_parts[1])
                          minor == ParseU32(version_parts[2])
                      IN  IF major # -1 /\ minor # -1
                          THEN major < 4 \/ (major = 4 /\ minor < 3)
                          ELSE old
                 ELSE old
        ELSE old

\* serial.rs:228-232: the test that sends a line down the function branch
IsFuncLine(unquoted) ==
    \/ StartsWith(unquoted, T_VOLT)
    \/ StartsWith(unquoted, T_CURR)
    \/ unquoted = T_FREQ \/ unquoted = T_PER
    \/ unquoted = T_CAP \/ unquoted = T_CONT
    \/ unquoted = T_DIOD \/ unquoted = T_RES
    \/ unquoted = T_TEMP

\* a match that ignores the swap
FuncModeNoSwap(unquoted, swap) ==
    CASE unquoted = T_VOLT -> "Vdc"
      [] unquoted = T_VOLT_AC -> "Vac"
      [] unquoted = T_CURR -> "Adc"
      [] unquoted = T_CURR_AC -> "Aac"
      [] unquoted = T_RES -> "Res"
      [] unquoted = T_CAP -> "Cap"
      [] unquoted = T_FREQ -> "Freq"
      [] unquoted = T_PER -> "Per"
      [] unquoted = T_TEMP -> "Temp"
      [] unquoted = T_DIOD -> "Diod"
      [] unquoted = T_CONT -> "Cont"
      [] OTHER -> "none"

\* serial.rs:234-248: the match on the unquoted token; "none" is the
\* fall-through arm (continue)
FuncMode(unquoted, swap) ==
    CASE unquoted = T_VOLT -> "Vdc"
      [] unquoted = T_VOLT_AC -> "Vac"
      [] unquoted = T_CURR -> "Adc"
      [] unquoted = T_CURR_AC -> "Aac"
      [] unquoted = T_RES -> "Res"
      [] unquoted = T_CAP -> "Cap"
      [] unquoted = T_FREQ -> "Freq"
      [] unquoted = T_PER -> "Per"
      [] unquoted = T_TEMP -> "Temp"
      [] unquoted = T_DIOD -> IF swap THEN "Cont" ELSE "Diod"
      [] unquoted = T_CONT -> IF swap THEN "Diod" ELSE "Cont"
      [] OTHER -> "none"

\* serial.rs:225-278: what a terminated line means in ScpiMode::Meas.
\* kind: "mode" (a function report), "skip" (function branch, no arm
\* matches), "meas" (a number), "drop" (neither)
ClassifyMeas(trimmed, swap) ==
    LET unquoted == TrimMatches(trimmed, QUOTE)
        val == ParseF64(trimmed)
    IN  IF IsFuncLine(unquoted)
        THEN IF FuncMode(unquoted, swap) # "none"
             THEN [kind |-> "mode", mode |-> FuncMode(unquoted, swap), val |-> F64Err]
             ELSE [kind |-> "skip", mode |-> "none", val |-> F64Err]
        ELSE IF val.kind # "err"
             THEN [kind |-> "meas", mode |-> "none", val |-> val]
             ELSE [kind |-> "drop", mode |-> "none", val |-> F64Err]

\* serial.rs:252-266: commands re-issued after a genuine mode change
ModeFollowUps(mode, beeper, cont_thr, diod_thr) ==
    IF mode = "Cont" THEN <<BeepCmd(beeper), ContThrCmd(cont_thr)>>
    ELSE IF mode = "Diod" THEN <<BeepCmd(beeper), DiodThrCmd(diod_thr)>>
    ELSE <<>>

(***************************************************************************)
(* Bounds of the model and program constants                                *)
(***************************************************************************)

\* capacity of the outbound line in commands: a write succeeds only while
\* the instrument has fewer than this many commands still to take
MaxWire == 1
\* terminated lines the receive buffer holds before the instrument waits
MaxRxLines == 1
\* a reply arrives whole or in two pieces; the second piece holds at most
\* this many bytes (terminator included)
MaxTail == 3
\* connect attempts the operator side makes
MaxSessions == 1
\* operator commands handed to the command channel
MaxOpCmds == 1
\* zero-byte reads followed in one session
MaxZeroReads == 2
\* bytes of a command the transport accepts before it would block
MaxPart == 2
\* channel capacities, scaled down from mpsc::channel(100), (100), (10)
CmdChanCap == 1
DataChanCap == 1
ModeChanCap == 1

\* let mut readbuf = [0u8; 1024]
ReadBufSize == 1024
\* if meas_count >= 10
FuncEvery == 10

Min(a, b) == IF a < b THEN a ELSE b

(***************************************************************************)
(* The instrument (environment)                                             *)
(***************************************************************************)

\* An instrument identity: manufacturer, model, serial number, the number
\* of 'V' characters before the version, the version parts, and the fields
\* that follow the firmware field.  A version part is either a number
\* (num = TRUE, printed with `zeros` leading zeros and an optional '+') or
\* some other text.
NumPart(v) == [num |-> TRUE, val |-> v, zeros |-> 0, plus |-> FALSE, text |-> <<>>]
PadPart(v, z, p) == [num |-> TRUE, val |-> v, zeros |-> z, plus |-> p, text |-> <<>>]
TextPart(t) == [num |-> FALSE, val |-> 0, zeros |-> 0, plus |-> FALSE, text |-> t]

\* decimal digits of a natural number below 10000
DigitChar(d) ==
    CASE d = 0 -> "0" [] d = 1 -> "1" [] d = 2 -> "2" [] d = 3 -> "3"
      [] d = 4 -> "4" [] d = 5 -> "5" [] d = 6 -> "6" [] d = 7 -> "7"
      [] d = 8 -> "8" [] d = 9 -> "9"

RECURSIVE NatText(_)
NatText(n) ==
    IF n < 10 THEN <<DigitChar(n)>>
    ELSE NatText(n \div 10) \o <<DigitChar(n % 10)>>

PartText(p) ==
    IF p.num
    THEN (IF p.plus THEN <<"+">> ELSE <<>>)
         \o [i \in 1..p.zeros |-> "0"] \o NatText(p.val)
    ELSE p.text

RECURSIVE Join(_, _)
Join(fields, sep) ==
    IF fields = <<>> THEN <<>>
    ELSE IF Len(fields) = 1 THEN fields[1]
    ELSE fields[1] \o <<sep>> \o Join(Tail(fields), sep)

FwText(instr) ==
    [i \in 1..instr.vs |-> "V"]
        \o Join([i \in 1..Len(instr.parts) |-> PartText(instr.parts[i])], ".")

\* the identity line the instrument answers *IDN? with (without terminator)
IdnText(instr) ==
    Join(SubSeq(<<instr.mfr, instr.model, instr.sn, FwText(instr)>>
                    \o [i \in 1..instr.extra |-> <<"x">>],
                1, instr.nfields),
         ",")

T_SN123 == <<"S", "N", "1", "2", "3">>

Instr(mfr, model, vs, parts, nfields) ==
    [mfr |-> mfr, model |-> model, sn |-> T_SN123, vs |-> vs, parts |-> parts,
     extra |-> IF nfields > 4 THEN nfields - 4 ELSE 0, nfields |-> nfields]

\* "OWON,XDM1041,SN123,V4.2.9" and "OWON,XDM1041,SN123,V4.3.0"
InstrOld == Instr(T_OWON, T_XDM1041, 1, <<NumPart(4), NumPart(2), NumPart(9)>>, 4)
InstrNew == Instr(T_OWON, T_XDM1041, 1, <<NumPart(4), NumPart(3), NumPart(0)>>, 4)

\* the instrument the protocol model is connected to
Instruments == {InstrOld}

\* answers to MEAS? (without terminator): a reading, the overload
\* sentinel, the reading of the specification's scenario, and a line that
\* is neither a token nor a number
M_12 == <<"1", "2">>
M_OVER == <<"1", "E", "9">>
M_SCI == <<"+", "1", ".", "2", "3", "4", "5", "6", "0", "E", "+", "0", "1">>
M_NOISE == <<"E", "R", "R">>
\* the answers the protocol model's instrument gives
MeasLines == {M_12}

\* answers to FUNC? (without terminator)
Quoted(t) == <<QUOTE>> \o t \o <<QUOTE>>
FuncLines == {Quoted(T_CONT)}

\* the reply lines an instrument may give to a query
RepliesTo(cmd, instr) ==
    IF cmd = CmdIdn THEN {IdnText(instr)}
    ELSE IF cmd = CmdMeas THEN MeasLines
    ELSE IF cmd = CmdFunc THEN FuncLines
    ELSE {}

\* number of line feeds in a text
RECURSIVE CountLF(_)
CountLF(s) ==
    IF s = <<>> THEN 0
    ELSE (IF s[1] = LF THEN 1 ELSE 0) + CountLF(Tail(s))

\* the rate selections the operator makes while connected (ui.rs:578-593)
\* and the commands they send
OpRates == {2}
OpCmds == {RateCmdText(i) : i \in OpRates}

(***************************************************************************)
(* State                                                                    *)
(***************************************************************************)

VARIABLES
    \* operator side (MyApp, mod.rs:141-156, 224-238)
    connection_state,   \* ConnectionState
    connection_error,   \* connection_error.is_some()
    serial_tx,          \* serial_tx.is_some()
    serial_rx,          \* serial_rx.is_some()
    mode_rx,            \* mode_rx.is_some()
    shutdown_tx,        \* shutdown_tx.is_some()
    device,             \* the shared device-identity string
    metermode,          \* operator-side MeterMode
    ui_frame,           \* position of the operator side's frame: "idle", or
                        \* "mode" between the two channel drains
    beeper_enabled, cont_threshold, diod_threshold, lock_remote, curr_rate,
    \* channels (serial.rs:20-23)
    cmd_chan,           \* operator -> task commands
    data_chan,          \* task -> operator measurements
    mode_chan,          \* task -> operator mode changes
    shutdown_chan,      \* oneshot: "absent", "open", "sent", "received"
    \* the serial task (serial.rs:40-50)
    pc,                 \* "none", "select", "read", "send_data", "send_mode",
                        \* "sleep", "done"
    scpimode, command_queue, shutting_down, drop_serial, meas_count,
    last_mode, swap_diod_cont,
    task_cfg,           \* the settings copied at spawn (serial.rs:33-38)
    pend,               \* the value of a send that waits for channel room
    \* transport and instrument
    instr,              \* the identity of the instrument on the line
    wire_out,           \* commands written, not yet taken by the instrument
    dev_out,            \* second piece of a reply, still to arrive
    rxbuf,              \* bytes received, not yet read
    \* history
    sessions,           \* connect attempts so far
    ops_sent,           \* operator commands handed over so far
    loc_fate, rst_fate, \* the shutdown commands of this session: "none",
                        \* "queued", "written" or "discarded"
    ahead,              \* queue entries that were ahead of SYST:LOC and
                        \* are still queued
    \* ports and transport detail
    serial_port,        \* the port selected on the operator side
    task_port,          \* the port the task of this session was given
    orphans,            \* ports held by tasks of earlier sessions that have
                        \* not left their loop
    zero_reads,         \* reads of this session that returned zero bytes
    part                \* the command of which the transport accepted a
                        \* part in a write that then reported would-block

opvars == <<connection_state, connection_error, serial_tx, serial_rx, mode_rx,
            shutdown_tx, device, metermode, ui_frame>>
setvars == <<beeper_enabled, cont_threshold, diod_threshold, lock_remote, curr_rate>>
chanvars == <<cmd_chan, data_chan, mode_chan, shutdown_chan>>
taskvars == <<pc, scpimode, command_queue, shutting_down, drop_serial,
              meas_count, last_mode, swap_diod_cont, task_cfg, pend>>
linevars == <<instr, wire_out, dev_out, rxbuf>>
histvars == <<sessions, ops_sent, loc_fate, rst_fate, ahead>>
envvars == <<serial_port, task_port, orphans, zero_reads, part>>
vars == <<opvars, setvars, chanvars, taskvars, linevars, histvars, envvars>>

NoPend == [val |-> F64Err, mode |-> "none"]

\* no command is partly on the line
NoPart == ""

\* MyApp::default (mod.rs:207-247)
Init ==
    /\ connection_state = "Disconnected"
    /\ connection_error = FALSE
    /\ serial_tx = FALSE /\ serial_rx = FALSE /\ mode_rx = FALSE
    /\ shutdown_tx = FALSE
    /\ device = <<>>
    /\ metermode = "Vdc"
    /\ ui_frame = "idle"
    /\ beeper_enabled = TRUE
    /\ cont_threshold = 50
    /\ diod_threshold = 20
    /\ lock_remote = TRUE
    /\ curr_rate = 0
    /\ cmd_chan = <<>> /\ data_chan = <<>> /\ mode_chan = <<>>
    /\ shutdown_chan = "absent"
    /\ pc = "none"
    /\ scpimode = "Idn"
    /\ command_queue = <<>>
    /\ shutting_down = FALSE /\ drop_serial = FALSE
    /\ meas_count = 0
    /\ last_mode = "Vdc"
    /\ swap_diod_cont = FALSE
    /\ task_cfg = [lock_remote |-> TRUE, beeper_enabled |-> TRUE,
                   cont_threshold |-> 50, diod_threshold |-> 20, curr_rate |-> 0]
    /\ pend = NoPend
    /\ instr \in Instruments
    /\ wire_out = <<>> /\ dev_out = <<>> /\ rxbuf = <<>>
    /\ sessions = 0 /\ ops_sent = 0
    /\ loc_fate = "none" /\ rst_fate = "none" /\ ahead = 0
    /\ serial_port = 1 /\ task_port = 1 /\ orphans = {}
    /\ zero_reads = 0 /\ part = NoPart

(***************************************************************************)
(* Operator side                                                            *)
(***************************************************************************)

\* serial.rs:64-77: the queue the task starts with
InitialQueue(cfg) ==
    <<CmdIdn, RateCmdText(cfg.curr_rate), BeepCmd(cfg.beeper_enabled),
      ContThrCmd(cfg.cont_threshold), DiodThrCmd(cfg.diod_threshold)>>

\* serial.rs:18, 335-336: the ports held by tasks: a task takes its
\* transport when it is spawned and drops it when it has left its loop
HeldPorts == (IF pc \in {"none", "done"} THEN {} ELSE {task_port}) \cup orphans

\* ui.rs:268-270: the transport is opened exclusively: the selected port
\* can be opened while no task holds it
PortFree == serial_port \notin HeldPorts

\* a task that starts in the measuring state
ConnectOkMeas ==
    /\ ui_frame = "idle"
    /\ connection_state = "Disconnected"
    /\ PortFree
    /\ sessions < MaxSessions
    /\ sessions' = sessions + 1
    /\ connection_state' = "Connected"
    /\ connection_error' = FALSE
    /\ serial_tx' = TRUE /\ serial_rx' = TRUE /\ mode_rx' = TRUE
    /\ shutdown_tx' = TRUE
    /\ cmd_chan' = <<>> /\ data_chan' = <<>> /\ mode_chan' = <<>>
    /\ shutdown_chan' = "open"
    /\ task_cfg' = [lock_remote |-> lock_remote, beeper_enabled |-> beeper_enabled,
                    cont_threshold |-> cont_threshold,
                    diod_threshold |-> diod_threshold, curr_rate |-> curr_rate]
    /\ pc' = "select"
    /\ scpimode' = "Meas"
    /\ command_queue' = InitialQueue(task_cfg')
    /\ shutting_down' = FALSE /\ drop_serial' = FALSE
    /\ meas_count' = 0
    /\ last_mode' = metermode
    /\ swap_diod_cont' = FALSE
    /\ pend' = NoPend
    /\ wire_out' = <<>> /\ dev_out' = <<>> /\ rxbuf' = <<>>
    /\ loc_fate' = "none" /\ rst_fate' = "none" /\ ahead' = 0
    /\ UNCHANGED <<device, metermode, ui_frame, setvars, instr, ops_sent>>
    /\ task_port' = serial_port
    /\ orphans' = HeldPorts
    /\ zero_reads' = 0 /\ part' = NoPart
    /\ UNCHANGED serial_port

\* ui.rs:265-281 and serial.rs:15-77: the Connect button with a transport
\* that opens; the task is spawned with its channels, its copies of the
\* settings and its initial queue
ConnectOk ==
    /\ ui_frame = "idle"
    /\ connection_state = "Disconnected"
    /\ PortFree
    /\ sessions < MaxSessions
    /\ sessions' = sessions + 1
    /\ connection_state' = "Connected"
    /\ connection_error' = FALSE
    /\ serial_tx' = TRUE /\ serial_rx' = TRUE /\ mode_rx' = TRUE
    /\ shutdown_tx' = TRUE
    /\ cmd_chan' = <<>> /\ data_chan' = <<>> /\ mode_chan' = <<>>
    /\ shutdown_chan' = "open"
    /\ task_cfg' = [lock_remote |-> lock_remote, beeper_enabled |-> beeper_enabled,
                    cont_threshold |-> cont_threshold,
                    diod_threshold |-> diod_threshold, curr_rate |-> curr_rate]
    /\ pc' = "select"
    /\ scpimode' = "Idn"
    /\ command_queue' = InitialQueue(task_cfg')
    /\ shutting_down' = FALSE /\ drop_serial' = FALSE
    /\ meas_count' = 0
    /\ last_mode' = metermode
    /\ swap_diod_cont' = FALSE
    /\ pend' = NoPend
    /\ wire_out' = <<>> /\ dev_out' = <<>> /\ rxbuf' = <<>>
    /\ loc_fate' = "none" /\ rst_fate' = "none" /\ ahead' = 0
    /\ UNCHANGED <<device, metermode, ui_frame, setvars, instr, ops_sent>>
    /\ task_port' = serial_port
    /\ orphans' = HeldPorts
    /\ zero_reads' = 0 /\ part' = NoPart
    /\ UNCHANGED serial_port

\* a failed open that reports nothing
ConnectFailSilent ==
    /\ ui_frame = "idle"
    /\ connection_state = "Disconnected"
    /\ sessions < MaxSessions
    /\ sessions' = sessions + 1
    /\ connection_state' = "Disconnected"
    /\ connection_error' = FALSE
    /\ UNCHANGED <<serial_tx, serial_rx, mode_rx, shutdown_tx, device, metermode,
                   ui_frame, setvars, chanvars, taskvars, linevars, ops_sent,
                   loc_fate, rst_fate, ahead>>
    /\ UNCHANGED envvars

\* ui.rs:265-290: the Connect button with a transport that fails to open
ConnectFail ==
    /\ ui_frame = "idle"
    /\ connection_state = "Disconnected"
    /\ sessions < MaxSessions
    /\ sessions' = sessions + 1
    /\ connection_state' = "Disconnected"
    /\ connection_error' = TRUE
    /\ UNCHANGED <<serial_tx, serial_rx, mode_rx, shutdown_tx, device, metermode,
                   ui_frame, setvars, chanvars, taskvars, linevars, ops_sent,
                   loc_fate, rst_fate, ahead>>
    /\ UNCHANGED envvars

\* ui.rs:578-593: the operator selects rate i; the selection is stored and
\* its command is handed to the command channel
OpSend(i) ==
    /\ ui_frame = "idle"
    /\ serial_tx
    /\ Len(cmd_chan) < CmdChanCap
    /\ ops_sent < MaxOpCmds
    /\ curr_rate' = i
    /\ cmd_chan' = Append(cmd_chan, RateCmdText(i))
    /\ ops_sent' = ops_sent + 1
    /\ UNCHANGED <<opvars, beeper_enabled, cont_threshold, diod_threshold,
                   lock_remote, data_chan, mode_chan, shutdown_chan, taskvars,
                   linevars, sessions, loc_fate, rst_fate, ahead>>
    /\ UNCHANGED envvars

\* ui.rs:427-552: the configuration command of each mode button
ConfCmd(m) ==
    CASE m = "Vdc" -> "CONF:VOLT:DC AUTO\n"
      [] m = "Vac" -> "CONF:VOLT:AC AUTO\n"
      [] m = "Adc" -> "CONF:CURR:DC AUTO\n"
      [] m = "Aac" -> "CONF:CURR:AC AUTO\n"
      [] m = "Res" -> "CONF:RES AUTO\n"
      [] m = "Cap" -> "CONF:CAP AUTO\n"
      [] m = "Freq" -> "CONF:FREQ\n"
      [] m = "Per" -> "CONF:PER\n"
      [] m = "Diod" -> "CONF:DIOD\n"
      [] m = "Cont" -> "CONF:CONT\n"
      [] m = "Temp" -> "CONF:TEMP:RTD PT100\n"

\* mod.rs:312-360: the commands set_mode hands to the command channel; the
\* diode and continuity buttons pass the beeper setting, the others none
SetModeCmds(m, beeper, cont_thr, diod_thr) ==
    <<ConfCmd(m)>>
        \o (IF m \in {"Diod", "Cont"}
            THEN <<BeepCmd(beeper),
                   IF m = "Cont" THEN ContThrCmd(cont_thr) ELSE DiodThrCmd(diod_thr)>>
            ELSE <<>>)

\* the mode buttons the operator presses while connected
OpModes == {"Vac"}

\* mod.rs:301-366: MyApp::set_mode from a mode button: the operator-side
\* mode is set at once and the commands are handed to the command channel
OpSetMode(m) ==
    /\ ui_frame = "idle"
    /\ serial_tx
    /\ ops_sent < MaxOpCmds
    /\ LET cmds == SetModeCmds(m, beeper_enabled, cont_threshold, diod_threshold)
       IN  /\ Len(cmd_chan) + Len(cmds) <= CmdChanCap
           /\ cmd_chan' = cmd_chan \o cmds
    /\ metermode' = m
    /\ ops_sent' = ops_sent + 1
    /\ UNCHANGED <<connection_state, connection_error, serial_tx, serial_rx,
                   mode_rx, shutdown_tx, device, ui_frame, setvars, data_chan,
                   mode_chan, shutdown_chan, taskvars, linevars, sessions,
                   loc_fate, rst_fate, ahead, envvars>>

\* ui.rs:617-637: the beeper checkbox, shown in the continuity and diode
\* modes: the setting is stored and its command handed to the command
\* channel
OpSetBeeper(b) ==
    /\ ui_frame = "idle"
    /\ serial_tx
    /\ metermode \in {"Cont", "Diod"}
    /\ b # beeper_enabled
    /\ ops_sent < MaxOpCmds
    /\ Len(cmd_chan) < CmdChanCap
    /\ beeper_enabled' = b
    /\ cmd_chan' = Append(cmd_chan, BeepCmd(b))
    /\ ops_sent' = ops_sent + 1
    /\ UNCHANGED <<opvars, cont_threshold, diod_threshold, lock_remote,
                   curr_rate, data_chan, mode_chan, shutdown_chan, taskvars,
                   linevars, sessions, loc_fate, rst_fate, ahead, envvars>>

\* ui.rs:121-129: a frame of the operator side starts and drains the
\* measurement channel.  The task runs on another thread, so it may act
\* between this drain and the drain of the mode channel.
UiDrainData ==
    /\ ui_frame = "idle"
    /\ (serial_rx /\ data_chan # <<>>) \/ (mode_rx /\ mode_chan # <<>>)
    /\ data_chan' = IF serial_rx THEN <<>> ELSE data_chan
    /\ ui_frame' = "mode"
    /\ UNCHANGED <<connection_state, connection_error, serial_tx, serial_rx,
                   mode_rx, shutdown_tx, device, metermode, setvars, cmd_chan,
                   mode_chan, shutdown_chan, taskvars, linevars, histvars>>
    /\ UNCHANGED envvars

\* ui.rs:130-186: the frame drains the mode channel; after the drain
\* metermode is the last mode received
UiDrainMode ==
    /\ ui_frame = "mode"
    /\ mode_chan' = IF mode_rx THEN <<>> ELSE mode_chan
    /\ metermode' = IF mode_rx /\ mode_chan # <<>>
                    THEN mode_chan[Len(mode_chan)] ELSE metermode
    /\ ui_frame' = "idle"
    /\ UNCHANGED <<connection_state, connection_error, serial_tx, serial_rx,
                   mode_rx, shutdown_tx, device, setvars, cmd_chan, data_chan,
                   shutdown_chan, taskvars, linevars, histvars>>
    /\ UNCHANGED envvars

\* a disconnect that tells the task to stop but stays Connected
DisconnectStays ==
    /\ ui_frame = "idle"
    /\ connection_state = "Connected"
    /\ shutdown_chan' = IF shutdown_tx THEN "sent" ELSE shutdown_chan
    /\ shutdown_tx' = FALSE
    /\ serial_tx' = FALSE
    /\ serial_rx' = FALSE /\ data_chan' = <<>>
    /\ mode_rx' = FALSE /\ mode_chan' = <<>>
    /\ connection_state' = "Connected"
    /\ connection_error' = FALSE
    /\ device' = <<>>
    /\ UNCHANGED <<metermode, ui_frame, setvars, cmd_chan, taskvars, linevars,
                   histvars>>
    /\ UNCHANGED envvars

\* mod.rs:371-387: MyApp::disconnect.  Dropping a receiver closes its
\* channel and discards what it holds.
Disconnect ==
    /\ ui_frame = "idle"
    /\ connection_state = "Connected"
    /\ shutdown_chan' = IF shutdown_tx THEN "sent" ELSE shutdown_chan
    /\ shutdown_tx' = FALSE
    /\ serial_tx' = FALSE
    /\ serial_rx' = FALSE /\ data_chan' = <<>>
    /\ mode_rx' = FALSE /\ mode_chan' = <<>>
    /\ connection_state' = "Disconnected"
    /\ connection_error' = FALSE
    /\ device' = <<>>
    /\ UNCHANGED <<metermode, ui_frame, setvars, cmd_chan, taskvars, linevars,
                   histvars>>
    /\ UNCHANGED envvars

(***************************************************************************)
(* The serial task (serial.rs:79-337)                                       *)
(***************************************************************************)

\* a drain that pushes the arrivals to the front of the queue
DrainedFront(queue, chan) == chan \o queue

\* a drain that empties the channel and queues nothing
DrainedLost(queue, chan) == queue

\* serial.rs:102-107: the queue after the command channel has been drained
Drained(queue, chan) == queue \o chan

\* shutdown commands queued in the wrong order, or ahead of the queue
WithShutdownSwapped(queue) == queue \o <<CmdRst, CmdLoc>>
WithShutdownFront(queue) == <<CmdLoc, CmdRst>> \o queue

\* serial.rs:87-88: the queue after the shutdown commands were queued
WithShutdown(queue) == queue \o <<CmdLoc, CmdRst>>

\* a seeding that enters remote mode whatever the setting
SeedsAlwaysRem(cmd, down, lock) ==
    IF cmd = CmdIdn /\ ~down THEN <<CmdRem, CmdMeas>> ELSE <<>>

\* serial.rs:136-150: what a successful write of cmd queues
Seeds(cmd, down, lock) ==
    IF cmd = CmdIdn /\ ~down
    THEN (IF lock THEN <<CmdRem>> ELSE <<>>) \o <<CmdMeas>>
    ELSE <<>>

\* serial.rs:152-157: drop_serial after a successful write of cmd
DropAfter(cmd, down, drop) == drop \/ (down /\ cmd = CmdRst)

\* a re-arm that does not look at shutting_down
RearmDueAlways(queue, down, mode) == mode = "Meas" /\ queue = <<>>

\* serial.rs:306: the condition of the polling re-arm
RearmDue(queue, down, mode) == ~down /\ mode = "Meas" /\ queue = <<>>

\* a re-arm that asks for the function one cycle late
RearmQueueLate(queue, down, mode, count) ==
    IF ~down /\ mode = "Meas" /\ queue = <<>>
    THEN (IF count > FuncEvery THEN <<CmdFunc>> ELSE <<CmdMeas>>)
    ELSE queue

\* serial.rs:306-319: queue and cycle counter after the re-arm step
RearmQueue(queue, down, mode, count) ==
    IF RearmDue(queue, down, mode)
    THEN (IF count >= FuncEvery THEN <<CmdFunc>> ELSE <<CmdMeas>>)
    ELSE queue

RearmCount(queue, down, mode, count) ==
    IF RearmDue(queue, down, mode) /\ count >= FuncEvery THEN 0 ELSE count

\* the rest of an iteration that performs no read: re-arm, then sleep
EndNoRead(q) ==
    /\ command_queue' = RearmQueue(q, shutting_down, scpimode, meas_count)
    /\ meas_count' = RearmCount(q, shutting_down, scpimode, meas_count)
    /\ pc' = "sleep"

Dec(n) == IF n > 0 THEN n - 1 ELSE 0

\* history of a shutdown command: a queued one that leaves the queue as
\* cmd gets the fate `to`
Fate(fate, cmd, which, to) == IF fate = "queued" /\ cmd = which THEN to ELSE fate

\* a shutdown branch without its precondition, taken again after it fired
ShutdownBranchAgain ==
    /\ pc \in {"select", "sleep", "send_data", "send_mode"}
    /\ shutdown_chan \in {"sent", "received"}
    /\ shutdown_chan' = "received"
    /\ shutting_down' = TRUE
    /\ command_queue' = WithShutdown(command_queue)
    /\ pend' = NoPend
    /\ pc' = "select"
    /\ loc_fate' = "queued" /\ rst_fate' = "queued"
    /\ ahead' = Len(command_queue)
    /\ UNCHANGED <<opvars, setvars, cmd_chan, data_chan, mode_chan, scpimode,
                   drop_serial, meas_count, last_mode, swap_diod_cont, task_cfg,
                   linevars, sessions, ops_sent>>
    /\ UNCHANGED envvars

\* serial.rs:81-92: the shutdown branch of select!.  The branch is polled
\* whenever the loop body is suspended (at the top of the loop, in the
\* sleep, or in a send that waits for room); taking it drops the body.
ShutdownBranch ==
    /\ pc \in {"select", "sleep", "send_data", "send_mode"}
    /\ ~shutting_down
    /\ shutdown_chan = "sent"
    /\ shutdown_chan' = "received"
    /\ shutting_down' = TRUE
    /\ command_queue' = WithShutdown(command_queue)
    /\ pend' = NoPend
    /\ pc' = "select"
    /\ loc_fate' = "queued" /\ rst_fate' = "queued"
    /\ ahead' = Len(command_queue)
    /\ UNCHANGED <<opvars, setvars, cmd_chan, data_chan, mode_chan, scpimode,
                   drop_serial, meas_count, last_mode, swap_diod_cont, task_cfg,
                   linevars, sessions, ops_sent>>
    /\ UNCHANGED envvars

\* serial.rs:125: write_all(cmd.as_bytes()) sends every byte of the command,
\* whatever an earlier attempt left on the line: the instrument receives the
\* bytes left there followed by the command
OnLine(cmd) == part \o cmd

\* serial.rs:101-158, 180, 305-321: an iteration whose poll reports a
\* writable event (readable too when r) with a non-empty queue, and whose
\* write_all succeeds
WakeWriteOk(r) ==
    /\ pc = "select"
    /\ Drained(command_queue, cmd_chan) # <<>>
    /\ Len(wire_out) < MaxWire
    /\ LET q0 == Drained(command_queue, cmd_chan)
           cmd == Head(q0)
           q1 == Tail(q0) \o Seeds(cmd, shutting_down, task_cfg.lock_remote)
       IN  /\ wire_out' = Append(wire_out, OnLine(cmd))
           /\ drop_serial' = DropAfter(cmd, shutting_down, drop_serial)
           /\ loc_fate' = Fate(loc_fate, cmd, CmdLoc, "written")
           /\ rst_fate' = Fate(rst_fate, cmd, CmdRst, "written")
           /\ IF r
              THEN /\ command_queue' = q1
                   /\ pc' = "read"
                   /\ UNCHANGED meas_count
              ELSE EndNoRead(q1)
    /\ cmd_chan' = <<>>
    /\ ahead' = Dec(ahead)
    /\ part' = NoPart
    /\ UNCHANGED <<opvars, setvars, data_chan, mode_chan, shutdown_chan,
                   scpimode, shutting_down, last_mode, swap_diod_cont, task_cfg,
                   pend, instr, dev_out, rxbuf, sessions, ops_sent>>
    /\ UNCHANGED <<serial_port, task_port, orphans, zero_reads>>

\* a would-block that is handled as a failure: the head is discarded
WakeWriteBlockPop ==
    /\ pc = "select"
    /\ Drained(command_queue, cmd_chan) # <<>>
    /\ EndNoRead(Tail(Drained(command_queue, cmd_chan)))
    /\ cmd_chan' = <<>>
    /\ ahead' = Dec(ahead)
    /\ loc_fate' = Fate(loc_fate, Head(Drained(command_queue, cmd_chan)),
                        CmdLoc, "discarded")
    /\ rst_fate' = Fate(rst_fate, Head(Drained(command_queue, cmd_chan)),
                        CmdRst, "discarded")
    /\ UNCHANGED <<opvars, setvars, data_chan, mode_chan, shutdown_chan,
                   scpimode, shutting_down, drop_serial, last_mode,
                   swap_diod_cont, task_cfg, pend, linevars, sessions,
                   ops_sent>>
    /\ UNCHANGED envvars

\* serial.rs:159-167: the write reports WouldBlock; the command stays at
\* the head and the break leaves the event loop, so no read follows
WakeWriteBlock ==
    /\ pc = "select"
    /\ Drained(command_queue, cmd_chan) # <<>>
    /\ EndNoRead(Drained(command_queue, cmd_chan))
    /\ cmd_chan' = <<>>
    /\ UNCHANGED <<opvars, setvars, data_chan, mode_chan, shutdown_chan,
                   scpimode, shutting_down, drop_serial, last_mode,
                   swap_diod_cont, task_cfg, pend, linevars, histvars>>
    /\ UNCHANGED envvars

\* serial.rs:125, 159-167: write_all reports WouldBlock after the transport
\* accepted the first n bytes of the command: those bytes are on the line,
\* the command stays at the head, the break leaves the event loop
WakeWritePartial(n) ==
    /\ pc = "select"
    /\ Drained(command_queue, cmd_chan) # <<>>
    /\ part = NoPart
    /\ n < Len(Head(Drained(command_queue, cmd_chan)))
    /\ part' = SubSeq(Head(Drained(command_queue, cmd_chan)), 1, n)
    /\ EndNoRead(Drained(command_queue, cmd_chan))
    /\ cmd_chan' = <<>>
    /\ UNCHANGED <<opvars, setvars, data_chan, mode_chan, shutdown_chan,
                   scpimode, shutting_down, drop_serial, last_mode,
                   swap_diod_cont, task_cfg, pend, linevars, histvars>>
    /\ UNCHANGED <<serial_port, task_port, orphans, zero_reads>>

\* a failed write that keeps the command at the head
WakeWriteHardKeep ==
    /\ pc = "select"
    /\ Drained(command_queue, cmd_chan) # <<>>
    /\ EndNoRead(Drained(command_queue, cmd_chan))
    /\ cmd_chan' = <<>>
    /\ UNCHANGED <<opvars, setvars, data_chan, mode_chan, shutdown_chan,
                   scpimode, shutting_down, drop_serial, last_mode,
                   swap_diod_cont, task_cfg, pend, linevars, histvars>>
    /\ UNCHANGED envvars

\* serial.rs:168-174: the write fails otherwise; the head is discarded and
\* the break leaves the event loop, so no read follows
WakeWriteHard ==
    /\ pc = "select"
    /\ Drained(command_queue, cmd_chan) # <<>>
    /\ EndNoRead(Tail(Drained(command_queue, cmd_chan)))
    /\ cmd_chan' = <<>>
    /\ ahead' = Dec(ahead)
    /\ loc_fate' = Fate(loc_fate, Head(Drained(command_queue, cmd_chan)),
                        CmdLoc, "discarded")
    /\ rst_fate' = Fate(rst_fate, Head(Drained(command_queue, cmd_chan)),
                        CmdRst, "discarded")
    /\ UNCHANGED <<opvars, setvars, data_chan, mode_chan, shutdown_chan,
                   scpimode, shutting_down, drop_serial, last_mode,
                   swap_diod_cont, task_cfg, pend, linevars, sessions,
                   ops_sent>>
    /\ UNCHANGED envvars

\* a readable event that is taken as writable too
WakeReadWrites == WakeWriteOk(TRUE)

\* serial.rs:121, 180: a readable event with nothing to write (the event
\* is not writable, or the queue is empty): the read burst starts
WakeRead ==
    /\ pc = "select"
    /\ command_queue' = Drained(command_queue, cmd_chan)
    /\ cmd_chan' = <<>>
    /\ pc' = "read"
    /\ UNCHANGED <<opvars, setvars, data_chan, mode_chan, shutdown_chan,
                   scpimode, shutting_down, drop_serial, meas_count, last_mode,
                   swap_diod_cont, task_cfg, pend, linevars, histvars>>
    /\ UNCHANGED envvars

\* serial.rs:110-119, 298-321: the poll times out or fails, or reports a
\* writable event while the queue is empty
WakeIdle ==
    /\ pc = "select"
    /\ EndNoRead(Drained(command_queue, cmd_chan))
    /\ cmd_chan' = <<>>
    /\ UNCHANGED <<opvars, setvars, data_chan, mode_chan, shutdown_chan,
                   scpimode, shutting_down, drop_serial, last_mode,
                   swap_diod_cont, task_cfg, pend, linevars, histvars>>
    /\ UNCHANGED envvars

\* serial.rs:185-188: the bytes one read returns
ReadContent(buf) == SubSeq(buf, 1, Min(Len(buf), ReadBufSize))

\* a framing test that accepts a bare line feed
IsTerminatedLF(content) == EndsWith(content, <<LF>>)

\* serial.rs:192: the framing test applied to the bytes of one read
IsTerminated(content) == EndsWith(content, CRLF)

\* a test that forwards every function report
ModeChangedAlways(mode, last) == TRUE

\* serial.rs:249: a function report is forwarded when it differs from the
\* last-known mode
ModeChanged(mode, last) == mode # last

\* serial.rs:185-280: one read of the burst returns bytes.  A content that
\* does not end in CR LF is discarded; a terminated one is the identity
\* (ScpiMode::Idn) or is classified (ScpiMode::Meas).  A send into a full
\* channel whose receiver lives suspends the task.
ReadData ==
    /\ pc = "read"
    /\ rxbuf # <<>>
    /\ LET content == ReadContent(rxbuf)
           trimmed == TrimEnd(content)
           c == ClassifyMeas(trimmed, swap_diod_cont)
       IN  /\ rxbuf' = SubSeq(rxbuf, Len(content) + 1, Len(rxbuf))
           /\ IF ~IsTerminated(content)
              THEN UNCHANGED <<device, scpimode, swap_diod_cont, last_mode,
                               meas_count, data_chan, mode_chan,
                               command_queue, pc, pend>>
              ELSE IF scpimode = "Idn"
              THEN /\ device' = trimmed
                   /\ scpimode' = "Meas"
                   /\ swap_diod_cont' = DeriveSwap(trimmed, swap_diod_cont)
                   /\ UNCHANGED <<last_mode, meas_count, data_chan, mode_chan,
                                  command_queue, pc, pend>>
              ELSE IF c.kind = "mode" /\ ModeChanged(c.mode, last_mode)
              THEN /\ last_mode' = c.mode
                   /\ IF mode_rx /\ Len(mode_chan) >= ModeChanCap
                      THEN /\ pc' = "send_mode"
                           /\ pend' = [val |-> F64Err, mode |-> c.mode]
                           /\ UNCHANGED <<mode_chan, command_queue>>
                      ELSE /\ mode_chan' = IF mode_rx THEN Append(mode_chan, c.mode)
                                           ELSE mode_chan
                           /\ command_queue' = command_queue
                                \o ModeFollowUps(c.mode, task_cfg.beeper_enabled,
                                                 task_cfg.cont_threshold,
                                                 task_cfg.diod_threshold)
                           /\ UNCHANGED <<pc, pend>>
                   /\ UNCHANGED <<device, scpimode, swap_diod_cont, meas_count,
                                  data_chan>>
              ELSE IF c.kind = "meas"
              THEN /\ IF serial_rx /\ Len(data_chan) >= DataChanCap
                      THEN /\ pc' = "send_data"
                           /\ pend' = [val |-> c.val, mode |-> "none"]
                           /\ UNCHANGED <<data_chan, meas_count>>
                      ELSE /\ data_chan' = IF serial_rx THEN Append(data_chan, c.val)
                                           ELSE data_chan
                           /\ meas_count' = meas_count + 1
                           /\ UNCHANGED <<pc, pend>>
                   /\ UNCHANGED <<device, scpimode, swap_diod_cont, last_mode,
                                  mode_chan, command_queue>>
              ELSE UNCHANGED <<device, scpimode, swap_diod_cont, last_mode,
                               meas_count, data_chan, mode_chan,
                               command_queue, pc, pend>>
    /\ UNCHANGED <<connection_state, connection_error, serial_tx, serial_rx,
                   mode_rx, shutdown_tx, metermode, ui_frame, setvars, cmd_chan,
                   shutdown_chan, shutting_down, drop_serial, task_cfg, instr,
                   wire_out, dev_out, sessions, ops_sent, loc_fate, rst_fate,
                   ahead>>
    /\ UNCHANGED envvars

\* serial.rs:272-276: tx_data.send(..).await completes (room, or the
\* receiver is gone and the send fails), then the cycle is counted
SendDataDone ==
    /\ pc = "send_data"
    /\ ~serial_rx \/ Len(data_chan) < DataChanCap
    /\ data_chan' = IF serial_rx THEN Append(data_chan, pend.val) ELSE data_chan
    /\ meas_count' = meas_count + 1
    /\ pend' = NoPend
    /\ pc' = "read"
    /\ UNCHANGED <<opvars, setvars, cmd_chan, mode_chan, shutdown_chan,
                   scpimode, command_queue, shutting_down, drop_serial,
                   last_mode, swap_diod_cont, task_cfg, linevars, histvars>>
    /\ UNCHANGED envvars

\* serial.rs:251-266: tx_mode.send(..).await completes, then the
\* follow-up commands are queued
SendModeDone ==
    /\ pc = "send_mode"
    /\ ~mode_rx \/ Len(mode_chan) < ModeChanCap
    /\ mode_chan' = IF mode_rx THEN Append(mode_chan, pend.mode) ELSE mode_chan
    /\ command_queue' = command_queue
            \o ModeFollowUps(pend.mode, task_cfg.beeper_enabled,
                             task_cfg.cont_threshold, task_cfg.diod_threshold)
    /\ pend' = NoPend
    /\ pc' = "read"
    /\ UNCHANGED <<opvars, setvars, cmd_chan, data_chan, shutdown_chan,
                   scpimode, shutting_down, drop_serial, meas_count, last_mode,
                   swap_diod_cont, task_cfg, linevars, histvars>>
    /\ UNCHANGED envvars

\* the rest of an iteration after the read burst: re-arm, then sleep
EndBurst ==
    /\ command_queue' = RearmQueue(command_queue, shutting_down, scpimode, meas_count)
    /\ meas_count' = RearmCount(command_queue, shutting_down, scpimode, meas_count)
    /\ pc' = "sleep"
    /\ UNCHANGED <<opvars, setvars, chanvars, scpimode, shutting_down,
                   drop_serial, last_mode, swap_diod_cont, task_cfg, pend,
                   linevars, histvars>>

\* serial.rs:184-192, 271-280: the read returns Ok(0), the transport has no
\* more data: the text is empty, it does not end with "\r\n", nothing is
\* handled, and the loop performs the next read
ReadZero ==
    /\ pc = "read"
    /\ rxbuf = <<>>
    /\ zero_reads < MaxZeroReads
    /\ zero_reads' = zero_reads + 1
    /\ UNCHANGED <<opvars, setvars, chanvars, taskvars, linevars, histvars>>
    /\ UNCHANGED <<serial_port, task_port, orphans, part>>

\* serial.rs:281-286: the read reports WouldBlock: the burst ends
ReadWouldBlock ==
    /\ pc = "read"
    /\ rxbuf = <<>>
    /\ EndBurst
    /\ UNCHANGED envvars

\* serial.rs:287-292: the read fails otherwise: the burst ends
ReadHardError ==
    /\ pc = "read"
    /\ EndBurst
    /\ UNCHANGED envvars

\* an exit test that does not wait for the reset to be written
ExitDueEarly(down, drop) == down

\* serial.rs:326-328: the test that ends the loop
ExitDue(down, drop) == down /\ drop

\* serial.rs:321-336: the sleep ends, the select! arm completes, and the
\* loop either goes round or is left, deregistering and dropping the
\* transport.  A pending shutdown signal is taken by the shutdown branch
\* instead, which is polled while the body sleeps.
SleepDone ==
    /\ pc = "sleep"
    /\ ~(shutdown_chan = "sent" /\ ~shutting_down)
    /\ pc' = IF ExitDue(shutting_down, drop_serial) THEN "done" ELSE "select"
    /\ UNCHANGED <<opvars, setvars, chanvars, scpimode, command_queue,
                   shutting_down, drop_serial, meas_count, last_mode,
                   swap_diod_cont, task_cfg, pend, linevars, histvars>>
    /\ UNCHANGED envvars

(***************************************************************************)
(* Transport and instrument                                                 *)
(***************************************************************************)

PortHeld == pc \notin {"none", "done"}

\* the two pieces a terminated reply arrives in when its last t bytes
\* are late
HeadPiece(reply, t) == SubSeq(reply, 1, Len(reply) - t)
TailPiece(reply, t) == SubSeq(reply, Len(reply) - t + 1, Len(reply))

\* the instrument takes the next command off the line; a query is
\* answered with one terminated line, of which the last t bytes may
\* arrive later
DeviceExec(t) ==
    /\ PortHeld
    /\ wire_out # <<>>
    /\ dev_out = <<>>
    /\ wire_out' = Tail(wire_out)
    /\ IF IsQuery(Head(wire_out))
       THEN /\ CountLF(rxbuf) < MaxRxLines
            /\ \E line \in RepliesTo(Head(wire_out), instr) :
                   /\ t < Len(line \o CRLF)
                   /\ rxbuf' = rxbuf \o HeadPiece(line \o CRLF, t)
                   /\ dev_out' = TailPiece(line \o CRLF, t)
       ELSE /\ t = 0
            /\ UNCHANGED <<rxbuf, dev_out>>
    /\ UNCHANGED <<opvars, setvars, chanvars, taskvars, instr, histvars>>
    /\ UNCHANGED envvars

\* the late piece of the reply arrives in the receive buffer
DeviceRest ==
    /\ PortHeld
    /\ dev_out # <<>>
    /\ rxbuf' = rxbuf \o dev_out
    /\ dev_out' = <<>>
    /\ UNCHANGED <<opvars, setvars, chanvars, taskvars, instr, wire_out, histvars>>
    /\ UNCHANGED envvars

(***************************************************************************)
(* Specification                                                            *)
(***************************************************************************)

\* Sessions from the start of the program.  The instrument answers each
\* query with one whole line.  A mode report never finds the mode channel
\* full here (the instrument reports one function), so SendModeDone is a
\* step of SpecReply only.
Next ==
    \/ ConnectOk
    \/ ConnectFail
    \/ \E i \in OpRates : OpSend(i)
    \/ UiDrainData
    \/ UiDrainMode
    \/ Disconnect
    \/ ShutdownBranch
    \/ \E r \in BOOLEAN : WakeWriteOk(r)
    \/ WakeWriteBlock
    \/ WakeWriteHard
    \/ WakeRead
    \/ WakeIdle
    \/ ReadData
    \/ SendDataDone
    \/ ReadWouldBlock
    \/ ReadHardError
    \/ SleepDone
    \/ DeviceExec(0)

Spec == Init /\ [][Next]_vars

(***************************************************************************)
(* Reply handling: sessions observed from the moment a reply is on its way  *)
(* to the host, over a wide choice of reply lines and of the ways a line    *)
(* is cut into pieces                                                       *)
(***************************************************************************)

T_owon == <<"o", "w", "o", "n">>
T_XDM2041 == <<"X", "D", "M", "2", "0", "4", "1">>
T_x == <<"x">>

\* firmware versions: two to four parts, numbers around 4.3, numbers with
\* a sign or a leading zero, and parts that are no numbers
Majors == {NumPart(3), NumPart(4), NumPart(5), PadPart(4, 1, TRUE), TextPart(T_x)}
Minors == {NumPart(2), NumPart(3), NumPart(10), PadPart(2, 1, FALSE), TextPart(T_x)}
Versions ==
    {<<ma, mi, NumPart(0)>> : ma \in Majors, mi \in Minors}
        \cup {<<NumPart(4), NumPart(2), NumPart(9)>>,
              <<NumPart(4), NumPart(2)>>, <<NumPart(3)>>,
              <<NumPart(4), NumPart(2), NumPart(9), NumPart(1)>>}

\* identities an instrument may answer *IDN? with
ReplyInstruments ==
    {Instr(mfr, model, vs, parts, nf) :
        mfr \in {T_OWON, T_owon}, model \in {T_XDM1041, T_XDM1241, T_XDM2041},
        vs \in 0..2, parts \in Versions, nf \in {3, 4, 5}}

\* lines an instrument may send while the task is in ScpiMode::Meas
ReplyLines ==
    {Quoted(t) : t \in {T_VOLT, T_VOLT_AC, T_CURR, T_CURR_AC, T_RES, T_CAP,
                        T_FREQ, T_PER, T_TEMP, T_DIOD, T_CONT}}
        \cup {T_VOLT, T_DIOD, T_CONT, Quoted(T_VOLT \o <<":", "D", "C">>)}
        \cup {M_12, M_OVER, M_SCI, M_NOISE, <<>>}

\* line terminators an instrument may use
Terminators == {CRLF, <<LF>>}

\* a session in which the task is about to read, and a reply line is in
\* the receive buffer, whole or with its last bytes still to arrive
InitReply ==
    /\ connection_state = "Connected"
    /\ connection_error = FALSE
    /\ serial_tx = TRUE /\ serial_rx = TRUE /\ mode_rx = TRUE
    /\ shutdown_tx = TRUE
    /\ metermode = "Vdc"
    /\ ui_frame = "idle"
    /\ beeper_enabled = TRUE /\ cont_threshold = 50 /\ diod_threshold = 20
    /\ lock_remote = TRUE /\ curr_rate = 0
    /\ task_cfg = [lock_remote |-> TRUE, beeper_enabled |-> TRUE,
                   cont_threshold |-> 50, diod_threshold |-> 20, curr_rate |-> 0]
    /\ cmd_chan = <<>>
    /\ shutdown_chan = "open"
    /\ pc = "read"
    /\ shutting_down = FALSE /\ drop_serial = FALSE
    /\ pend = NoPend
    /\ wire_out = <<>>
    /\ sessions = 1 /\ ops_sent = 0
    /\ loc_fate = "none" /\ rst_fate = "none" /\ ahead = 0
    /\ serial_port = 1 /\ task_port = 1 /\ orphans = {}
    /\ zero_reads = 0 /\ part = NoPart
    /\ scpimode \in {"Idn", "Meas"}
    /\ IF scpimode = "Idn"
       THEN /\ instr \in ReplyInstruments
            /\ device = <<>>
            /\ swap_diod_cont = FALSE
            /\ command_queue = Tail(InitialQueue(task_cfg))
                                 \o Seeds(CmdIdn, FALSE, task_cfg.lock_remote)
            /\ meas_count = 0
            /\ last_mode = "Vdc"
            /\ data_chan = <<>> /\ mode_chan = <<>>
            /\ \E t \in 0..MaxTail :
                   /\ t < Len(IdnText(instr) \o CRLF)
                   /\ rxbuf = HeadPiece(IdnText(instr) \o CRLF, t)
                   /\ dev_out = TailPiece(IdnText(instr) \o CRLF, t)
       ELSE /\ instr \in {InstrOld, InstrNew}
            /\ device = IdnText(instr)
            /\ swap_diod_cont = DeriveSwap(IdnText(instr), FALSE)
            /\ command_queue = <<>>
            /\ meas_count \in {0, FuncEvery - 1}
            /\ last_mode \in {"Vdc", "Cont"}
            /\ data_chan \in {<<>>, [i \in 1..DataChanCap |-> ParseF64(M_12)]}
            /\ mode_chan \in {<<>>, [i \in 1..ModeChanCap |-> last_mode]}
            /\ \E line \in ReplyLines, term \in Terminators, t \in 0..MaxTail :
                   /\ t < Len(line \o term)
                   /\ rxbuf = HeadPiece(line \o term, t)
                   /\ dev_out = TailPiece(line \o term, t)

\* the task's iterations that find nothing to write, the operator side's
\* frames, and the arrival of the rest of the reply
NextReply ==
    \/ WakeRead
    \/ WakeIdle
    \/ ReadData
    \/ SendDataDone
    \/ SendModeDone
    \/ ReadWouldBlock
    \/ ReadHardError
    \/ SleepDone
    \/ UiDrainData
    \/ UiDrainMode
    \/ DeviceRest

SpecReply == InitReply /\ [][NextReply]_vars

(***************************************************************************)
(* Properties of the command queue and of the shutdown sequence             *)
(***************************************************************************)

Last(q) == q[Len(q)]
IsPrefix(a, b) == Len(a) <= Len(b) /\ SubSeq(b, 1, Len(a)) = a

\* a step of the running session (not the start of a new one)
SameSession == sessions' = sessions

\* a step in which the task writes a command to the transport
IsWrite == SameSession /\ Len(wire_out') = Len(wire_out) + 1

\* the commands a step takes from the command channel into the queue
Arrived == IF Len(cmd_chan') < Len(cmd_chan) THEN cmd_chan ELSE <<>>

\* C1: commands are written in the order they were enqueued.  Every write
\* writes the command at the head of the queue (the queue entries, then the
\* commands taken from the channel in that step, in channel order), and no
\* step changes the queue other than by removing its head and appending at
\* its tail.
C1_WriteOrderIsQueueOrder ==
    [][SameSession =>
         LET q0 == command_queue \o Arrived
         IN  IF IsWrite
             THEN /\ q0 # <<>>
                  /\ Last(wire_out') = Head(q0)
                  /\ IsPrefix(Tail(q0), command_queue')
             ELSE \/ IsPrefix(q0, command_queue')
                  \/ q0 # <<>> /\ IsPrefix(Tail(q0), command_queue')]_vars

\* an operator command has been written while later commands wait behind it
C1_Witness ==
    /\ wire_out # <<>> /\ Last(wire_out) \in OpCmds
    /\ command_queue # <<>>

\* queries written whose reply the task has not read yet: those the
\* instrument still has to take, and those whose reply line is on its way
\* or in the receive buffer
Outstanding ==
    Cardinality({i \in DOMAIN wire_out : IsQuery(wire_out[i])})
        + CountLF(dev_out) + CountLF(rxbuf)

\* C2: at most one query is outstanding at any time
C2_OneQueryOutstanding == PortHeld => Outstanding <= 1

\* C3 as claimed: whenever *RST has been written after a disconnect
\* request, SYST:LOC has been written before it
C3_LocWrittenBeforeRst == rst_fate = "written" => loc_fate = "written"

\* C3 as amended: *RST is written only after SYST:LOC has left the queue,
\* written or discarded by a hard write error
C3_LocLeavesBeforeRst ==
    rst_fate = "written" => loc_fate \in {"written", "discarded"}

\* both shutdown commands have been written
C3_Witness == rst_fate = "written" /\ loc_fate = "written" /\ shutting_down

\* C4: the task leaves its loop only after a shutdown request has been
\* received and *RST has been written after it
C4_ExitOnlyAfterReset == pc = "done" => shutting_down /\ rst_fate = "written"

\* the task has left its loop
C4_Witness == pc = "done" /\ sessions > 0

\* number of polling queries in a queue
RECURSIVE NumPoll(_)
NumPoll(q) ==
    IF q = <<>> THEN 0
    ELSE (IF Head(q) \in {CmdMeas, CmdFunc} THEN 1 ELSE 0) + NumPoll(Tail(q))

\* C5: once the shutdown request has been received, no step adds a MEAS?
\* or FUNC? query to the queue
C5_NoPollingAfterShutdown ==
    [][shutting_down /\ SameSession
         => NumPoll(command_queue') <= NumPoll(command_queue)]_vars

\* an iteration has ended in measuring mode with an empty queue after the
\* shutdown request
C5_Witness ==
    /\ shutting_down /\ scpimode = "Meas"
    /\ command_queue = <<>> /\ pc = "sleep"

\* C6: the shutdown commands are appended at the tail of the queue, and
\* SYST:LOC is written only when every command that was queued ahead of
\* it has been written or discarded
C6_QueuedCommandsFirst ==
    [][SameSession =>
         /\ (~shutting_down /\ shutting_down'
               => command_queue' = command_queue \o <<CmdLoc, CmdRst>>)
         /\ (loc_fate = "queued" /\ loc_fate' = "written"
               => ahead = 0 /\ Last(wire_out') = CmdLoc)]_vars

\* the shutdown commands wait behind commands that were queued before them
C6_Witness ==
    /\ loc_fate = "queued" /\ ahead > 0
    /\ Len(command_queue) = ahead + 2

(***************************************************************************)
(* Properties of the reply handling                                         *)
(***************************************************************************)

\* a step in which the task reads bytes from the transport, and the bytes
\* it reads
IsRead == pc = "read" /\ Len(rxbuf') < Len(rxbuf)
ReadBytes == SubSeq(rxbuf, 1, Len(rxbuf) - Len(rxbuf'))

\* C7: a read whose bytes do not end in CR LF emits nothing, leaves the
\* protocol state alone and does not advance the cycle counter
C7_UnterminatedReadIsSilent ==
    [][IsRead /\ ~EndsWith(ReadBytes, CRLF)
         => UNCHANGED <<device, data_chan, mode_chan, pend, scpimode,
                        swap_diod_cont, last_mode, meas_count>>]_vars

\* the first piece of a reply has been read while the rest is still to
\* arrive
C7_Witness == pc = "read" /\ rxbuf = <<>> /\ dev_out # <<>>

\* the values of the complete lines an instrument sends
WholeValues == {ParseF64(line) : line \in ReplyLines \cup MeasLines}

\* C8: whatever the pieces a reply arrives in, the identity stored and the
\* measurements emitted are those of complete reply lines
C8_WholeLineClassified ==
    /\ \A i \in DOMAIN data_chan : data_chan[i] \in WholeValues
    /\ pc = "send_data" => pend.val \in WholeValues
    /\ scpimode = "Meas" /\ device # <<>> => device = IdnText(instr)

\* the version numbers of an identity, when its firmware field has them
HasMajor(i) == Len(i.parts) >= 3 /\ i.parts[1].num
HasMinor(i) == Len(i.parts) >= 3 /\ i.parts[2].num

\* the quirk as claimed: affected family, and major < 4 or (major = 4 and
\* minor < 3)
QuirkClaimed(i) ==
    /\ i.nfields >= 4
    /\ i.mfr = T_OWON
    /\ i.model \in {T_XDM1041, T_XDM1241}
    /\ HasMajor(i)
    /\ \/ i.parts[1].val < 4
       \/ i.parts[1].val = 4 /\ HasMinor(i) /\ i.parts[2].val < 3

\* the quirk as amended: the comparison is made only when both the major
\* and the minor part are unsigned integers
QuirkAmended(i) ==
    /\ i.nfields >= 4
    /\ i.mfr = T_OWON
    /\ i.model \in {T_XDM1041, T_XDM1241}
    /\ HasMajor(i) /\ HasMinor(i)
    /\ \/ i.parts[1].val < 4
       \/ i.parts[1].val = 4 /\ i.parts[2].val < 3

\* a step in which the task takes the instrument's whole identity line
TakesIdentity ==
    IsRead /\ scpimode = "Idn" /\ ReadBytes = IdnText(instr) \o CRLF

\* C9 as claimed: after the identity line has been taken, swap_diod_cont
\* is true exactly when the identity has at least four fields, names an
\* affected family, and has major < 4 or (major = 4 and minor < 3)
C9_QuirkAsClaimed ==
    [][TakesIdentity => swap_diod_cont' = QuirkClaimed(instr)]_vars

\* C9 as amended: the same, provided the major and the minor part of the
\* firmware version both parse as unsigned integers; otherwise false
C9_QuirkDerivation ==
    [][TakesIdentity => swap_diod_cont' = QuirkAmended(instr)]_vars

\* the identity "OWON,XDM1041,SN123,V4.2.9" has been taken and the swap
\* is on
C9_Witness ==
    /\ instr = InstrOld /\ device = IdnText(InstrOld)
    /\ swap_diod_cont /\ Len(command_queue) > 1

FuncTokens ==
    {T_VOLT, T_VOLT_AC, T_CURR, T_CURR_AC, T_RES, T_CAP, T_FREQ, T_PER,
     T_TEMP, T_DIOD, T_CONT}

\* the mapping as claimed
ClaimedMode(tok, swap) ==
    CASE tok = T_VOLT -> "Vdc"
      [] tok = T_VOLT_AC -> "Vac"
      [] tok = T_CURR -> "Adc"
      [] tok = T_CURR_AC -> "Aac"
      [] tok = T_RES -> "Res"
      [] tok = T_CAP -> "Cap"
      [] tok = T_FREQ -> "Freq"
      [] tok = T_PER -> "Per"
      [] tok = T_TEMP -> "Temp"
      [] tok = T_DIOD /\ ~swap -> "Diod"
      [] tok = T_DIOD /\ swap -> "Cont"
      [] tok = T_CONT /\ ~swap -> "Cont"
      [] tok = T_CONT /\ swap -> "Diod"

\* C10: a quoted function token read in measuring mode resolves to the
\* mode of the table, DIOD and CONT exchanged when swap_diod_cont is set:
\* it becomes the last-known mode and, when it differs from the previous
\* one, it is the mode handed to the mode channel
C10_TokenMapping ==
    [][\A tok \in FuncTokens :
         IsRead /\ scpimode = "Meas" /\ ReadBytes = Quoted(tok) \o CRLF
           => /\ last_mode' = ClaimedMode(tok, swap_diod_cont)
              /\ last_mode' # last_mode
                   => \/ pend'.mode = last_mode'
                      \/ mode_chan' = Append(mode_chan, last_mode')]_vars

\* with the swap on, a token has resolved to Diod
C10_Witness == swap_diod_cont /\ scpimode = "Meas" /\ last_mode = "Diod"

(***************************************************************************)
(* Properties of the polling cycle and of the start-up                      *)
(***************************************************************************)

\* a step that ends an iteration in measuring mode, before any shutdown
\* request, with nothing left in the queue when the re-arm is reached:
\* either the queue and the channel were empty and nothing was read, or
\* the only command was written and seeded nothing
RearmsOnEmpty ==
    /\ SameSession /\ pc # "sleep" /\ pc' = "sleep"
    /\ ~shutting_down /\ scpimode = "Meas"
    /\ \/ command_queue \o Arrived = <<>>
       \/ /\ IsWrite /\ Len(command_queue \o Arrived) = 1
          /\ Last(wire_out') # CmdIdn

\* C11: the query the re-arm enqueues is FUNC?, with the cycle counter
\* back to 0, once 10 measurements have been counted since the last
\* function query, and MEAS?, the counter untouched, with fewer than 10
C11_PollingCadence ==
    [][RearmsOnEmpty =>
         IF meas_count >= 10
         THEN command_queue' = <<CmdFunc>> /\ meas_count' = 0
         ELSE command_queue' = <<CmdMeas>> /\ meas_count' = meas_count]_vars

\* the function query has been enqueued and the counter is back to 0
C11_Witness ==
    /\ command_queue = <<CmdFunc>> /\ meas_count = 0
    /\ pc = "sleep" /\ ~shutting_down

(***************************************************************************)
(* Properties of the handling of a terminated line                          *)
(***************************************************************************)

\* t is s without its trailing white space
IsTrimOf(t, s) ==
    /\ IsPrefix(t, s)
    /\ t = <<>> \/ Last(t) \notin {" ", "\t", "\n", "\r"}
    /\ \A i \in (Len(t) + 1)..Len(s) : s[i] \in {" ", "\t", "\n", "\r"}

NumCommas(s) == Cardinality({i \in DOMAIN s : s[i] = ","})

\* a step in which the task reads bytes that end in CR LF
ReadsTerminated == IsRead /\ EndsWith(ReadBytes, CRLF)

\* C12: while identifying, the bytes of a terminated read, whatever they
\* are, become the stored identity (without trailing white space), the
\* state becomes measuring and the quirk is the one of these bytes (off
\* with fewer than four fields); nothing is emitted, counted or enqueued
C12_IdentityTaken ==
    [][ReadsTerminated /\ scpimode = "Idn" =>
         /\ IsTrimOf(device', ReadBytes)
         /\ scpimode' = "Meas"
         /\ NumCommas(ReadBytes) < 3 => ~swap_diod_cont'
         /\ ReadBytes = IdnText(instr) \o CRLF
              => swap_diod_cont' = QuirkAmended(instr)
         /\ UNCHANGED <<data_chan, mode_chan, pend, meas_count, last_mode,
                        command_queue>>]_vars

\* an identity that names no known manufacturer has been taken
C12_Witness ==
    /\ scpimode = "Meas" /\ instr.mfr = T_owon /\ device = IdnText(instr)
    /\ Len(command_queue) > 1

(***************************************************************************)
(* Start-up: sessions under every stored choice of remote locking, beeper   *)
(* and rate, in which the operator sends nothing, no write fails and no     *)
(* disconnect is requested                                                  *)
(***************************************************************************)

\* MyApp::default (mod.rs:207-247) with the persisted settings restored
InitStart ==
    /\ connection_state = "Disconnected"
    /\ connection_error = FALSE
    /\ serial_tx = FALSE /\ serial_rx = FALSE /\ mode_rx = FALSE
    /\ shutdown_tx = FALSE
    /\ device = <<>>
    /\ metermode = "Vdc"
    /\ ui_frame = "idle"
    /\ beeper_enabled \in BOOLEAN
    /\ cont_threshold = 50
    /\ diod_threshold = 20
    /\ lock_remote \in BOOLEAN
    /\ curr_rate \in 0..2
    /\ cmd_chan = <<>> /\ data_chan = <<>> /\ mode_chan = <<>>
    /\ shutdown_chan = "absent"
    /\ pc = "none"
    /\ scpimode = "Idn"
    /\ command_queue = <<>>
    /\ shutting_down = FALSE /\ drop_serial = FALSE
    /\ meas_count = 0
    /\ last_mode = "Vdc"
    /\ swap_diod_cont = FALSE
    /\ task_cfg = [lock_remote |-> TRUE, beeper_enabled |-> TRUE,
                   cont_threshold |-> 50, diod_threshold |-> 20, curr_rate |-> 0]
    /\ pend = NoPend
    /\ instr \in Instruments
    /\ wire_out = <<>> /\ dev_out = <<>> /\ rxbuf = <<>>
    /\ sessions = 0 /\ ops_sent = 0
    /\ loc_fate = "none" /\ rst_fate = "none" /\ ahead = 0
    /\ serial_port = 1 /\ task_port = 1 /\ orphans = {}
    /\ zero_reads = 0 /\ part = NoPart

NextStart ==
    \/ ConnectOk
    \/ UiDrainData
    \/ UiDrainMode
    \/ \E r \in BOOLEAN : WakeWriteOk(r)
    \/ WakeWriteBlock
    \/ WakeRead
    \/ WakeIdle
    \/ ReadData
    \/ SendDataDone
    \/ ReadWouldBlock
    \/ ReadHardError
    \/ SleepDone
    \/ DeviceExec(0)

SpecStart == InitStart /\ [][NextStart]_vars

\* the start-up queue as claimed, for the settings in force at connect
ClaimedRate(i) ==
    CASE i = 0 -> "RATE S\n" [] i = 1 -> "RATE M\n" [] i = 2 -> "RATE F\n"
ClaimedBeep(on) ==
    IF on THEN "SYST:BEEP:STATe ON\n" ELSE "SYST:BEEP:STATe OFF\n"
ClaimedStart ==
    <<"*IDN?\n", ClaimedRate(curr_rate), ClaimedBeep(beeper_enabled),
      "CONT:THREshold 50\n", "DIOD:THREshold 2\n">>
ClaimedSeeds ==
    (IF lock_remote THEN <<"SYST:REM\n">> ELSE <<>>) \o <<"MEAS?\n">>

\* C13: the session starts with the queue *IDN?, RATE, SYST:BEEP:STATe,
\* CONT:THREshold, DIOD:THREshold; *IDN? is written from that very queue,
\* and at that moment SYST:REM (exactly when remote locking is enabled)
\* and MEAS? are appended; every write takes the head of the queue and
\* keeps the rest in order.  So the commands are written in that order.
C13_StartupOrder ==
    [][/\ sessions' # sessions => command_queue' = ClaimedStart
       /\ IsWrite =>
            /\ Last(wire_out') = Head(command_queue)
            /\ IsPrefix(Tail(command_queue), command_queue')
       /\ IsWrite /\ Last(wire_out') = "*IDN?\n" =>
            /\ command_queue = ClaimedStart
            /\ command_queue' = Tail(ClaimedStart) \o ClaimedSeeds]_vars

\* without remote locking, the first MEAS? has been written
C13_Witness ==
    /\ ~lock_remote /\ wire_out # <<>> /\ Last(wire_out) = "MEAS?\n"
    /\ meas_count = 0 /\ device = <<>>

(***************************************************************************)
(* Reply handling while the operator may disconnect                         *)
(***************************************************************************)

\* the steps of SpecReply, the operator's disconnect and the shutdown
\* branch of select!
NextClose ==
    \/ NextReply
    \/ Disconnect
    \/ ShutdownBranch

SpecClose == InitReply /\ [][NextClose]_vars

\* a read in measuring mode whose bytes are the line and CR LF
ReadsLine(line) == IsRead /\ scpimode = "Meas" /\ ReadBytes = line \o CRLF

\* the readings among the reply lines and the values they denote
Readings == {M_12, M_SCI, M_OVER}
ReadingValue(line) ==
    CASE line = M_12 -> [kind |-> "num", m |-> 12, e |-> 0]
      [] line = M_SCI -> [kind |-> "num", m |-> 123456, e |-> -4]
      [] line = M_OVER -> [kind |-> "num", m |-> 1, e |-> 9]

\* the measurement channel takes v (a channel whose receiver is gone takes
\* nothing) and the cycle is counted
Emits(v) ==
    /\ data_chan' = IF serial_rx THEN Append(data_chan, v) ELSE data_chan
    /\ meas_count' = meas_count + 1

\* the task starts to wait for room in the measurement channel, holding v
Holds(v) ==
    /\ pc' = "send_data" /\ pend'.val = v
    /\ UNCHANGED <<data_chan, meas_count>>

\* the read of a reading emits its value or holds it for a full channel,
\* and touches neither the mode channel nor the queue
ReadingRead ==
    \A line \in Readings :
        ReadsLine(line) =>
            /\ Emits(ReadingValue(line)) \/ Holds(ReadingValue(line))
            /\ UNCHANGED <<mode_chan, command_queue, last_mode>>

\* the wait for room ends
WaitEnds == pc = "send_data" /\ pc' # "send_data"

\* C14: a reading read in measuring mode gives exactly one measurement
\* event with its value and one more cycle, at the read or when the
\* channel has room, and no mode event and no command
C14_ReadingEmittedOnce ==
    [][/\ ReadingRead
       /\ WaitEnds =>
            /\ Emits(pend.val)
            /\ UNCHANGED <<mode_chan, last_mode>>]_vars

\* a read in measuring mode of a function report, quoted or bare, that
\* resolves to mode m
ReportRead(m) ==
    \E tok \in FuncTokens :
        /\ ReadsLine(Quoted(tok)) \/ ReadsLine(tok)
        /\ m = ClaimedMode(tok, swap_diod_cont)

\* the task hands a mode to the mode channel, or starts to wait for room
\* in it
Forwards == mode_chan' # mode_chan /\ Len(mode_chan') > Len(mode_chan)
HoldsMode == pend'.mode # "none" /\ pend.mode = "none"

\* C15: a mode is handed to the mode channel (or held for it) only by the
\* read of a report that resolves to a mode other than the last-known one,
\* or by the end of the wait of such a report; a report that resolves to
\* the last-known mode changes nothing but the receive buffer; and the
\* mode handed over or held is the last-known mode afterwards
C15_ForwardOnlyOnChange ==
    [][/\ \A m \in MeterModes :
            ReportRead(m) /\ m = last_mode =>
                UNCHANGED <<mode_chan, data_chan, command_queue, pend,
                            last_mode, meas_count, pc>>
       /\ Forwards =>
            /\ mode_chan' = Append(mode_chan, last_mode')
            /\ \/ pc = "send_mode" /\ pend.mode = last_mode
               \/ \E m \in MeterModes :
                    ReportRead(m) /\ m # last_mode /\ m = last_mode'
       /\ HoldsMode =>
            /\ pend'.mode = last_mode'
            /\ \E m \in MeterModes :
                    ReportRead(m) /\ m # last_mode /\ m = last_mode']_vars

\* a report of resistance has been forwarded: it is in the mode channel
\* and it is the last-known mode
C15_Witness ==
    /\ mode_chan # <<>> /\ Last(mode_chan) = "Res" /\ last_mode = "Res"
    /\ pc = "read"

\* the follow-up commands as claimed
ClaimedFollowUps(m) ==
    CASE m = "Cont" -> <<ClaimedBeep(task_cfg.beeper_enabled), "CONT:THREshold 50\n">>
      [] m = "Diod" -> <<ClaimedBeep(task_cfg.beeper_enabled), "DIOD:THREshold 2\n">>
      [] OTHER -> <<>>

\* the read of a report that changes the mode queues the follow-ups of
\* the new mode, or holds the mode for a full channel and queues nothing
\* yet
ChangeRead ==
    \A m \in MeterModes :
        ReportRead(m) /\ m # last_mode =>
            /\ last_mode' = m
            /\ \/ /\ pend' = pend
                  /\ command_queue' = command_queue \o ClaimedFollowUps(m)
               \/ /\ HoldsMode
                  /\ command_queue' = command_queue

\* the wait for room in the mode channel ends
ModeWaitEnds == pc = "send_mode" /\ pc' # "send_mode"

\* C16: a report that changes the mode makes the task queue, at the read
\* or when the mode channel has room, the beeper-state command followed by
\* CONT:THREshold for Cont, the beeper-state command followed by
\* DIOD:THREshold for Diod, and nothing for the other nine modes
C16_FollowUpsQueued ==
    [][/\ ChangeRead
       /\ ModeWaitEnds =>
            command_queue' = command_queue \o ClaimedFollowUps(pend.mode)]_vars

\* lines that are neither a function token nor a number: a word, the
\* empty line, and a quoted report that starts like a token but is none
NoiseLines == {M_NOISE, <<>>, Quoted(T_VOLT \o <<":", "D", "C">>)}

\* C17: in measuring mode the read of a terminated line that is neither a
\* function token nor a number emits nothing, leaves the cycle counter, the
\* last-known mode and the queue alone, and the read burst goes on
C17_NoiseDropped ==
    [][\A line \in NoiseLines :
         ReadsLine(line) =>
            /\ UNCHANGED <<data_chan, mode_chan, pend, meas_count, last_mode,
                           command_queue, scpimode>>
            /\ pc' = "read"]_vars

\* a line has been read whole in measuring mode and nothing came of it
C17_Witness ==
    /\ pc = "read" /\ scpimode = "Meas" /\ rxbuf = <<>> /\ dev_out = <<>>
    /\ data_chan = <<>> /\ mode_chan = <<>> /\ meas_count = 0
    /\ command_queue = <<>> /\ serial_rx

\* the overload sentinel
Overload == [kind |-> "num", m |-> 1, e |-> 9]

\* C18: the reply 1E9 read in measuring mode is handed to the measurement
\* channel as the number 1e9, at the read or when the channel has room,
\* and is counted as a cycle
C18_OverloadForwarded ==
    [][/\ ReadsLine(M_OVER) => Emits(Overload) \/ Holds(Overload)
       /\ WaitEnds /\ pend.val = Overload => Emits(Overload)]_vars

(***************************************************************************)
(* Properties of failed writes                                              *)
(***************************************************************************)

\* the queue a write attempt finds: the entries, then the commands taken
\* from the channel in that step
Found == command_queue \o Arrived

\* the polling query a step queues on an empty queue, if any
Rearmed(q) ==
    IF q = <<>> /\ ~shutting_down /\ scpimode = "Meas"
    THEN {<<"MEAS?\n">>, <<"FUNC?\n">>}
    ELSE {<<>>}

\* C19: a write that reports would-block writes nothing and leaves the
\* queue as the attempt found it, with the same command at its head; it
\* seeds nothing, does not mark the transport for release, and leaves the
\* shutdown commands queued; the iteration ends in the sleep
C19_WouldBlockKeepsHead ==
    [][WakeWriteBlock =>
         /\ Found # <<>>
         /\ command_queue' = Found
         /\ Head(command_queue') = Head(Found)
         /\ wire_out' = wire_out
         /\ UNCHANGED <<drop_serial, loc_fate, rst_fate, scpimode, meas_count>>
         /\ pc' = "sleep"]_vars

\* the reset is still at the head of the queue after an iteration that
\* wrote nothing, and the transport is not marked for release
C19_Witness ==
    /\ pc = "sleep" /\ shutting_down /\ ~drop_serial
    /\ command_queue = <<"*RST\n">> /\ rst_fate = "queued"
    /\ loc_fate = "written"

\* C20: a write that fails otherwise writes nothing and removes the head
\* of the queue and nothing else (an emptied queue may be re-armed with a
\* polling query); the task goes on to the sleep and does not leave its
\* loop, and the transport is not marked for release by it
C20_HardErrorDropsHead ==
    [][WakeWriteHard =>
         /\ Found # <<>>
         /\ \E r \in Rearmed(Tail(Found)) : command_queue' = Tail(Found) \o r
         /\ wire_out' = wire_out
         /\ UNCHANGED <<drop_serial, scpimode, shutting_down>>
         /\ pc' = "sleep"]_vars

\* the identity query was discarded unwritten and the rate command behind
\* it has been written
C20_Witness ==
    /\ wire_out # <<>> /\ wire_out[1] = "RATE S\n"
    /\ sessions = 1 /\ ~shutting_down

(***************************************************************************)
(* Properties of the channels and of the session life cycle                 *)
(***************************************************************************)

\* C21: a full measurement or mode channel never blocks the loop: the task
\* is never suspended in a send, waiting for the operator side to make
\* room
C21_SendNeverBlocks == pc \notin {"send_data", "send_mode"}

\* a press of the Connect button
ConnectPressed == sessions' = sessions + 1

\* the operator side holds no channel end
NoHandles == ~serial_tx /\ ~serial_rx /\ ~mode_rx /\ ~shutdown_tx

\* C22: a press of Connect whose open fails leaves the session state
\* Disconnected with the connection error set; it spawns no task and
\* creates no channel: the task, its channels and the operator side's
\* (absent) channel ends are as before the press
C22_FailedOpenSpawnsNothing ==
    [][ConnectPressed /\ connection_state' # "Connected" =>
         /\ connection_state' = "Disconnected"
         /\ connection_error'
         /\ NoHandles /\ NoHandles'
         /\ UNCHANGED <<taskvars, chanvars, linevars>>]_vars

\* the open has failed: the error is shown and no task exists
C22_Witness ==
    /\ connection_error /\ connection_state = "Disconnected"
    /\ pc = "none" /\ NoHandles /\ shutdown_chan = "absent"

\* occurrences of a command in a queue
NumOf(c, q) == Cardinality({i \in DOMAIN q : q[i] = c})

\* C23: within a session the shutdown branch fires at most once: when it
\* fires the signal is consumed and SYST:LOC and *RST are appended once;
\* from then on shutting_down stays set, the signal stays consumed, and
\* no step adds a SYST:LOC or a *RST to the queue
C23_ShutdownConsumedOnce ==
    [][SameSession =>
         /\ ~shutting_down /\ shutting_down' =>
              /\ shutdown_chan = "sent" /\ shutdown_chan' = "received"
              /\ NumOf("SYST:LOC\n", command_queue') = 1
              /\ NumOf("*RST\n", command_queue') = 1
         /\ shutting_down =>
              /\ shutting_down' /\ shutdown_chan' = shutdown_chan
              /\ shutdown_chan = "received"
              /\ NumOf("SYST:LOC\n", command_queue') <= NumOf("SYST:LOC\n", command_queue)
              /\ NumOf("*RST\n", command_queue') <= NumOf("*RST\n", command_queue)]_vars

\* the loop has gone on after the branch fired: SYST:LOC is written and
\* *RST is the only command left
C23_Witness ==
    /\ shutting_down /\ shutdown_chan = "received" /\ pc = "select"
    /\ loc_fate = "written" /\ command_queue = <<"*RST\n">>

\* a step that spawns a serial task
Spawns == pc \in {"none", "done"} /\ pc' = "select"

\* a step that asks the task to shut down
AsksShutdown == shutdown_chan # "sent" /\ shutdown_chan' = "sent"

\* C24: the session state is Disconnected or Connected whenever a handler
\* has run to its end (Connecting is passed inside the Connect handler).
\* It becomes Connected only from Disconnected, by a press of Connect
\* that spawns a task; a task is spawned by no other step; Connected is
\* left only by the disconnect, which asks the task to shut down and
\* gives up the channel ends, and every disconnect leaves it; a press of
\* Connect whose open fails ends in Disconnected again
C24_SessionStateMachine ==
    [][/\ connection_state \in {"Disconnected", "Connected"}
       /\ connection_state' \in {"Disconnected", "Connected"}
       /\ connection_state' # connection_state =>
            \/ /\ connection_state = "Disconnected"
               /\ ConnectPressed /\ Spawns
            \/ /\ connection_state = "Connected"
               /\ AsksShutdown /\ NoHandles' /\ ~ConnectPressed
       /\ Spawns =>
            /\ connection_state = "Disconnected"
            /\ connection_state' = "Connected"
       /\ ConnectPressed => connection_state = "Disconnected"
       /\ AsksShutdown =>
            /\ connection_state = "Connected"
            /\ connection_state' = "Disconnected"]_vars

\* a session has been connected and disconnected again, and its task is
\* still at work
C24_Witness ==
    /\ connection_state = "Disconnected" /\ sessions = 1
    /\ shutdown_chan = "received" /\ pc = "sleep" /\ NoHandles

(***************************************************************************)
(* Properties of the loop iteration                                         *)
(***************************************************************************)

\* C25: a wake does what its event indicates and no more.  A readable
\* event with nothing to write starts the read burst and writes nothing;
\* a wake without event does neither; a writable event writes only from a
\* non-empty queue, reads nothing in that step, and goes on to the read
\* burst exactly when the event is readable too, so the write precedes
\* the reads of its wake.  Nothing is written or read outside these steps.
C25_WakeFollowsEvent ==
    [][SameSession =>
         /\ WakeRead =>
              /\ wire_out' = wire_out /\ rxbuf' = rxbuf
              /\ command_queue' = Found /\ pc' = "read"
         /\ WakeIdle =>
              /\ wire_out' = wire_out /\ rxbuf' = rxbuf
              /\ pc' = "sleep"
         /\ \A r \in BOOLEAN :
              WakeWriteOk(r) =>
                /\ Found # <<>> /\ Last(wire_out') = Head(Found)
                /\ rxbuf' = rxbuf
                /\ pc' = IF r THEN "read" ELSE "sleep"
         /\ IsWrite => pc = "select" /\ \E r \in BOOLEAN : WakeWriteOk(r)
         /\ IsRead => pc = "read" /\ wire_out' = wire_out]_vars

\* the read burst of a wake has data to read while a written command is
\* still on its way to the instrument
C25_Witness ==
    /\ pc = "read" /\ rxbuf # <<>> /\ wire_out # <<>>
    /\ scpimode = "Idn" /\ Len(command_queue) = 5

\* C26: at every boundary between two loop iterations (the task is in its
\* inter-iteration sleep or about to poll) the cycle counter is between 0
\* and 10
C26_CounterBounded ==
    pc \in {"sleep", "select"} /\ ~shutting_down /\ shutdown_chan = "open"
        => meas_count \in 0..10

\* C27: a session starts in the identifying state with the swap off; the
\* protocol state changes only from identifying to measuring, in a read
\* of a terminated line; only that read stores an identity and sets the
\* swap; in the measuring state the swap never changes and no identity
\* is stored (the operator's disconnect may clear the shared string)
C27_IdentifyOnce ==
    [][/\ ConnectPressed /\ Spawns => scpimode' = "Idn" /\ ~swap_diod_cont'
       /\ SameSession =>
            /\ scpimode' # scpimode =>
                 /\ scpimode = "Idn" /\ scpimode' = "Meas"
                 /\ ReadsTerminated
            /\ scpimode' = scpimode =>
                 /\ swap_diod_cont' = swap_diod_cont
                 /\ device' = device \/ (device' = <<>> /\ AsksShutdown)
            /\ scpimode = "Idn" => ~swap_diod_cont]_vars

\* the session is in the measuring state with the identity stored and the
\* swap set, several measurements later
C27_Witness ==
    /\ scpimode = "Meas" /\ swap_diod_cont /\ device # <<>>
    /\ meas_count > 1 /\ sessions = 1

\* a step that starts a loop iteration: the body runs from the drain to
\* the sleep or to the read burst
StartsIteration == SameSession /\ pc = "select" /\ pc' \in {"read", "sleep"}

\* C30: every loop iteration starts by taking all commands off the operator
\* channel and appending them, in channel order, behind the entries already
\* queued, also when the shutdown request has been received; the queued
\* entries keep their places (the iteration may then take the head for its
\* write attempt), and no other step takes anything off the channel
C30_DrainAppendsAtTail ==
    [][SameSession =>
         IF StartsIteration
         THEN /\ cmd_chan' = <<>>
              /\ \/ IsPrefix(command_queue \o cmd_chan, command_queue')
                 \/ /\ command_queue \o cmd_chan # <<>>
                    /\ IsPrefix(Tail(command_queue \o cmd_chan), command_queue')
         ELSE IsPrefix(cmd_chan, cmd_chan')]_vars

\* an operator command that was still in the channel when the shutdown
\* request was received has been queued behind the shutdown commands
C30_Witness ==
    /\ shutting_down
    /\ Len(command_queue) >= 3
    /\ Last(command_queue) \in OpCmds
    /\ command_queue[Len(command_queue) - 1] = CmdRst
    /\ command_queue[Len(command_queue) - 2] = CmdLoc

(***************************************************************************)
(* Polling under fair scheduling: the start-up sessions, in which the task  *)
(* is scheduled, the instrument takes what is written, and a writable       *)
(* event with a successful write keeps occurring.  Nothing is assumed of    *)
(* the operator side's frames.                                              *)
(***************************************************************************)

\* serial.rs:180-189: pending bytes are read: a read that finds bytes is
\* not failed by a hard error for ever.  This is SF_vars(ReadData) with
\* ENABLED <<ReadData>>_vars written out: ReadData is enabled exactly when
\* the task stands at the read with bytes pending
ReadDataFair ==
    \/ <>[](~(pc = "read" /\ rxbuf # <<>>))
    \/ []<><<ReadData>>_vars

PollFairness ==
    /\ WF_vars(SleepDone)
    /\ ReadDataFair
    /\ WF_vars(ReadWouldBlock)
    /\ WF_vars(SendDataDone)
    /\ WF_vars(DeviceExec(0))
    /\ SF_vars(\E r \in BOOLEAN : WakeWriteOk(r))
    /\ SF_vars(WakeRead)

SpecPoll == InitStart /\ [][NextStart]_vars /\ PollFairness

\* a step that writes a polling query
WritesQuery == IsWrite /\ Last(wire_out') \in {"MEAS?\n", "FUNC?\n"}

ExitFairness == PollFairness /\ WF_vars(ShutdownBranch)

SpecExit == Init /\ [][Next]_vars /\ ExitFairness

\* C29: after a disconnect request the task eventually leaves its loop and
\* releases the transport, whatever would-block results and hard write
\* errors the queued commands meet
C29_TaskLeavesLoop == (shutdown_chan = "sent") ~> (pc = "done")

(***************************************************************************)
(* Properties of the operator side and the task running side by side        *)
(***************************************************************************)

\* operator commands of this session that the task has not written: those
\* still in the command channel and those in the queue
OpWaiting ==
    Len(cmd_chan) + Cardinality({i \in DOMAIN command_queue :
                                     command_queue[i] \in OpCmds})

\* C31: every command handed to the command channel before the disconnect
\* request is written before SYST:LOC: once SYST:LOC has been written, no
\* operator command of the session waits in the channel or in the queue.
\* (The sender is dropped by the disconnect request and the start-up rate
\* command is ahead of SYST:LOC, so an operator command found waiting was
\* handed over before the request.)
C31_OperatorCommandsBeforeLoc ==
    loc_fate = "written" => OpWaiting = 0

\* C33: after disconnect has cleared the device identity, it stays empty
\* until a later session receives its identity reply: while the shutdown
\* request of the closed session is pending or being served, the string is
\* empty
C33_IdentityStaysCleared ==
    shutdown_chan \in {"sent", "received"} => device = <<>>

\* C36: a wake whose event is readable as well as writable reads whatever
\* the write attempt gives: when the write reports would-block or fails
\* while received bytes are pending, the wake goes on to the read burst
C36_ReadAfterFailedWrite ==
    [][(WakeWriteBlock \/ WakeWriteHard) /\ rxbuf # <<>> => pc' = "read"]_vars

(***************************************************************************)
(* The operator's mode buttons and beeper checkbox during reply handling:   *)
(* the task is about to read a line sent in ScpiMode::Meas, the operator    *)
(* side shows the mode the task knows, and the operator presses a mode      *)
(* button or toggles the beeper before or after the line is read            *)
(***************************************************************************)

InitOper ==
    /\ connection_state = "Connected"
    /\ connection_error = FALSE
    /\ serial_tx = TRUE /\ serial_rx = TRUE /\ mode_rx = TRUE
    /\ shutdown_tx = TRUE
    /\ metermode \in {"Vdc", "Cont"}
    /\ ui_frame = "idle"
    /\ beeper_enabled = TRUE /\ cont_threshold = 50 /\ diod_threshold = 20
    /\ lock_remote = TRUE /\ curr_rate = 0
    /\ task_cfg = [lock_remote |-> TRUE, beeper_enabled |-> TRUE,
                   cont_threshold |-> 50, diod_threshold |-> 20, curr_rate |-> 0]
    /\ cmd_chan = <<>>
    /\ shutdown_chan = "open"
    /\ pc = "read"
    /\ scpimode = "Meas"
    /\ instr \in {InstrOld, InstrNew}
    /\ device = IdnText(instr)
    /\ swap_diod_cont = DeriveSwap(IdnText(instr), FALSE)
    /\ command_queue = <<>>
    /\ shutting_down = FALSE /\ drop_serial = FALSE
    /\ meas_count \in {0, FuncEvery - 1}
    /\ last_mode = metermode
    /\ data_chan \in {<<>>, [i \in 1..DataChanCap |-> ParseF64(M_12)]}
    /\ mode_chan \in {<<>>, [i \in 1..ModeChanCap |-> last_mode]}
    /\ pend = NoPend
    /\ wire_out = <<>>
    /\ \E line \in ReplyLines, t \in 0..MaxTail :
           /\ t < Len(line \o CRLF)
           /\ rxbuf = HeadPiece(line \o CRLF, t)
           /\ dev_out = TailPiece(line \o CRLF, t)
    /\ sessions = 1 /\ ops_sent = 0
    /\ loc_fate = "none" /\ rst_fate = "none" /\ ahead = 0
    /\ serial_port = 1 /\ task_port = 1 /\ orphans = {}
    /\ zero_reads = 0 /\ part = NoPart

NextOper ==
    \/ NextReply
    \/ \E m \in OpModes : OpSetMode(m)
    \/ \E b \in BOOLEAN : OpSetBeeper(b)

SpecOper == InitOper /\ [][NextOper]_vars

\* the MeterMode the operator side has once it has drained the mode
\* channel, a mode the task is waiting to hand over included
ModeAfterDrain ==
    IF pend.mode # "none" THEN pend.mode
    ELSE IF mode_chan # <<>> THEN Last(mode_chan)
    ELSE metermode

\* C34: when the task has processed a function report, the operator side
\* has the mode the report resolves to as soon as it has drained the mode
\* channel, whatever mode buttons were pressed before
C34_ModeConsistent ==
    [][\A m \in MeterModes : ReportRead(m) => ModeAfterDrain' = m]_vars

\* C35: the beeper and threshold commands queued on a mode change carry
\* the operator's beeper setting and thresholds of that moment
C35_FollowUpsCurrent ==
    [][\A m \in MeterModes :
          ReportRead(m) /\ m # last_mode /\ pc' # "send_mode" =>
              command_queue' = command_queue
                  \o ModeFollowUps(m, beeper_enabled, cont_threshold,
                                   diod_threshold)]_vars

(***************************************************************************)
(* Sessions on several ports: the operator may select another port between  *)
(* a disconnect and the next connect.  The task of the session in progress  *)
(* is followed step by step; of the tasks of earlier sessions only the      *)
(* port they still hold is kept.                                            *)
(***************************************************************************)

\* serial ports of the machine
MaxPorts == 2
Ports == 1..MaxPorts

\* ui.rs:248-260: the port drop-down stores the selection
SelectPort(p) ==
    /\ ui_frame = "idle"
    /\ p # serial_port
    /\ serial_port' = p
    /\ UNCHANGED <<opvars, setvars, chanvars, taskvars, linevars, histvars,
                   task_port, orphans, zero_reads, part>>

\* serial.rs:325-336: the task of an earlier session leaves its loop and
\* drops its transport
OrphanExit(p) ==
    /\ p \in orphans
    /\ orphans' = orphans \ {p}
    /\ UNCHANGED <<opvars, setvars, chanvars, taskvars, linevars, histvars,
                   serial_port, task_port, zero_reads, part>>

\* a session that has just been connected on port 1 with the default
\* settings (ui.rs:265-281, serial.rs:15-77); sessions counts the connect
\* attempts from here on
InitPorts ==
    /\ connection_state = "Connected"
    /\ connection_error = FALSE
    /\ serial_tx = TRUE /\ serial_rx = TRUE /\ mode_rx = TRUE
    /\ shutdown_tx = TRUE
    /\ device = <<>>
    /\ metermode = "Vdc"
    /\ ui_frame = "idle"
    /\ beeper_enabled = TRUE
    /\ cont_threshold = 50
    /\ diod_threshold = 20
    /\ lock_remote = TRUE
    /\ curr_rate = 0
    /\ cmd_chan = <<>> /\ data_chan = <<>> /\ mode_chan = <<>>
    /\ shutdown_chan = "open"
    /\ pc = "select"
    /\ scpimode = "Idn"
    /\ task_cfg = [lock_remote |-> TRUE, beeper_enabled |-> TRUE,
                   cont_threshold |-> 50, diod_threshold |-> 20, curr_rate |-> 0]
    /\ command_queue = InitialQueue(task_cfg)
    /\ shutting_down = FALSE /\ drop_serial = FALSE
    /\ meas_count = 0
    /\ last_mode = "Vdc"
    /\ swap_diod_cont = FALSE
    /\ pend = NoPend
    /\ instr \in Instruments
    /\ wire_out = <<>> /\ dev_out = <<>> /\ rxbuf = <<>>
    /\ sessions = 0 /\ ops_sent = 0
    /\ loc_fate = "none" /\ rst_fate = "none" /\ ahead = 0
    /\ serial_port = 1 /\ task_port = 1 /\ orphans = {}
    /\ zero_reads = 0 /\ part = NoPart

NextPorts ==
    \/ Next
    \/ \E p \in Ports : SelectPort(p)
    \/ \E p \in Ports : OrphanExit(p)

SpecPorts == InitPorts /\ [][NextPorts]_vars

\* C32: at most one serial task is alive at any time
C32_OneTaskAlive == Cardinality(HeldPorts) <= 1

(***************************************************************************)
(* Sessions on a line that may accept a part of a command and may report    *)
(* the end of the data with a read of zero bytes                            *)
(***************************************************************************)

NextLine ==
    \/ NextStart
    \/ ReadZero
    \/ \E n \in 1..MaxPart : WakeWritePartial(n)

SpecLine == Init /\ [][NextLine]_vars

\* C37: every read burst terminates: a read that returns zero bytes ends
\* the burst like a would-block or a hard error does, so the task goes on to
\* the re-arm step and the delay between iterations
C37_ZeroReadEndsBurst == [][ReadZero => pc' = "sleep"]_vars

\* C38: each command reaches the line once and whole: what a successful
\* write adds to the line is the head command itself, also on the retry that
\* follows a would-block which left a part of the command on the line
C38_CommandOnceAndWhole ==
    [][\A r \in BOOLEAN : WakeWriteOk(r)
          => Last(wire_out') = Head(Drained(command_queue, cmd_chan))]_vars

====
